---- MODULE Spec2Model ----
(***************************************************************************)
(* mcper: the install orchestration engine.                                *)
(*                                                                         *)
(* The model follows internal/service/manager.go (Manager), the registry   *)
(* client (internal/registry/registry.go, verify.go), the ledger store     *)
(* (state.Store), the data model (model.State, NewDefaultState) and the    *)
(* two host adapters the Manager is built with (CodexAdapter and           *)
(* ClaudeAdapter).  Strings produced by formatting and consumed by a       *)
(* parser of an imported library (semver versions and constraints, hex     *)
(* digests) are modelled by tables over the finite universe of strings     *)
(* the model uses.                                                         *)
(***************************************************************************)
EXTENDS Integers, Sequences, FiniteSets, TLC

VARIABLES
    ledger,   \* the ledger file of state.Store: absent, or the persisted State
    cfg,      \* the host config file of each adapter: absent, or its document
    now,      \* the wall clock read by time.Now()
    last,     \* the Manager call that returned last: request, outcome, trace
    rq        \* the registry-client call made last on a drawn catalog

vars == <<ledger, cfg, now, last, rq>>

(***************************************************************************)
(* Bounds of the model.                                                    *)
(***************************************************************************)
MaxTime == 2
MaxCatalog == 3

(***************************************************************************)
(* Maps (Go map[string]T) as functions over a finite domain of strings.    *)
(***************************************************************************)
EmptyMap == [k \in {} |-> TRUE]

Put(m, k, v) == [x \in (DOMAIN m) \cup {k} |-> IF x = k THEN v ELSE m[x]]

Del(m, k) == [x \in (DOMAIN m) \ {k} |-> m[x]]

DelAll(m, ks) == [x \in (DOMAIN m) \ ks |-> m[x]]

Merge(m, n) == [x \in (DOMAIN m) \cup (DOMAIN n) |-> IF x \in DOMAIN n THEN n[x] ELSE m[x]]

Range(s) == {s[i] : i \in DOMAIN s}

\* sort.Strings on the names the model uses: a fixed ascending order.
NameOrder == <<"KEY", "TOKEN", "claude", "codex", "pa", "pb", "pu", "s1", "s2", "s3">>

Rank(n) == CHOOSE i \in DOMAIN NameOrder : NameOrder[i] = n

RECURSIVE SortedSeq(_)
SortedSeq(S) ==
    IF S = {} THEN <<>>
    ELSE LET m == CHOOSE x \in S : \A y \in S : Rank(x) <= Rank(y)
         IN  <<m>> \o SortedSeq(S \ {m})

\* keys(m): the sorted key list of a server map.
keys(m) == SortedSeq(DOMAIN m)

(***************************************************************************)
(* model: constants and server specs.                                      *)
(***************************************************************************)
TrustModeCosign == "cosign"
TrustModeHash == "hash"
SourceTypeTap == "tap"
SourceTypeDirect == "direct"
TargetCodex == "codex"
TargetClaude == "claude"
TargetAll == "all"
DefaultTapName == "official"
DefaultTapURL == "https://github.com/sarjann/mcp-registry.git"
ServerTransportSTDIO == "stdio"
ServerTransportHTTP == "http"

MCPServerSpec(transport, command, args, url, env) ==
    [Transport |-> transport, Command |-> command, Args |-> args,
     URL |-> url, EnvRequired |-> env]

StdioSpec(command, args) == MCPServerSpec(ServerTransportSTDIO, command, args, "", <<>>)

HTTPSpec(url) == MCPServerSpec(ServerTransportHTTP, "", <<>>, url, <<>>)

\* strings.Join(parts, " ")
RECURSIVE JoinSpace(_)
JoinSpace(parts) ==
    IF Len(parts) = 0 THEN ""
    ELSE IF Len(parts) = 1 THEN parts[1]
    ELSE parts[1] \o " " \o JoinSpace(Tail(parts))

\* A key that also tells the required environment variables apart (told
\* apart by C19).
canonicalKeyWithEnv(spec) ==
    IF spec.Transport = ServerTransportHTTP
    THEN "http:" \o spec.URL
    ELSE "stdio:" \o JoinSpace(<<spec.Command>> \o spec.Args \o spec.EnvRequired)

canonicalKey(spec) ==
    IF spec.Transport = ServerTransportHTTP
    THEN "http:" \o spec.URL
    ELSE "stdio:" \o JoinSpace(<<spec.Command>> \o spec.Args)

\* An equality on every field of the two specs (told apart by C18).
specsIdentical(a, b) == a = b

specsEqual(a, b) == canonicalKey(a) = canonicalKey(b)

(***************************************************************************)
(* adapters: the per-entry converters shared by the Codex and Claude       *)
(* adapters.  A config entry is a map from field name to value.            *)
(***************************************************************************)
\* A conversion that writes the command form for every transport (told
\* apart by C5).
serverSpecToConfigCommandOnly(spec) ==
    Put(Put(EmptyMap, "command", spec.Command), "args", spec.Args)

serverSpecToConfig(spec) ==
    LET base == IF spec.Transport = ServerTransportHTTP
                THEN Put(EmptyMap, "url", spec.URL)
                ELSE LET c == Put(EmptyMap, "command", spec.Command)
                     IN  IF Len(spec.Args) > 0 THEN Put(c, "args", spec.Args) ELSE c
    IN  IF Len(spec.EnvRequired) > 0
        THEN Put(base, "env_vars", SortedSeq(Range(spec.EnvRequired)))
        ELSE base

\* toStringSlice of a field that may be missing.
toStringSlice(c, k) == IF k \in DOMAIN c THEN c[k] ELSE <<>>

configToServerSpec(c) ==
    IF "url" \in DOMAIN c /\ c["url"] # ""
    THEN MCPServerSpec(ServerTransportHTTP, "", <<>>, c["url"], toStringSlice(c, "env_vars"))
    ELSE MCPServerSpec(ServerTransportSTDIO,
                       IF "command" \in DOMAIN c THEN c["command"] ELSE "",
                       toStringSlice(c, "args"), "", toStringSlice(c, "env_vars"))

\* A host config file: exists tells whether the file is on disk, raw is the
\* parsed document (top-level key -> value); a missing file reads as the
\* empty document.
NoFile == [exists |-> FALSE, raw |-> EmptyMap]

File(raw) == [exists |-> TRUE, raw |-> raw]

\* toMap(raw[key]): the servers section under key, if the document has one.
HasSection(raw, key) == key \in DOMAIN raw

(***************************************************************************)
(* CodexAdapter (TOML document, servers under mcp_servers).  Each write    *)
(* yields the file after the call; an I/O error leaves the file as it was. *)
(***************************************************************************)
CodexUpsertServers(f, servers) ==
    LET mcp == IF HasSection(f.raw, "mcp_servers") THEN f.raw["mcp_servers"] ELSE EmptyMap
        new == Merge(mcp, [n \in DOMAIN servers |-> serverSpecToConfig(servers[n])])
    IN  File(Put(f.raw, "mcp_servers", new))

CodexRemoveServers(f, names) ==
    IF ~HasSection(f.raw, "mcp_servers") THEN f
    ELSE File(Put(f.raw, "mcp_servers", DelAll(f.raw["mcp_servers"], Range(names))))

CodexListServers(f) ==
    IF ~HasSection(f.raw, "mcp_servers") THEN EmptyMap
    ELSE [n \in DOMAIN f.raw["mcp_servers"] |-> configToServerSpec(f.raw["mcp_servers"][n])]

(***************************************************************************)
(* ClaudeAdapter (JSON document, servers under mcpServers, legacy key      *)
(* mcp_servers).                                                           *)
(***************************************************************************)
claudeMCPServers(raw) ==
    IF HasSection(raw, "mcpServers") THEN raw["mcpServers"]
    ELSE IF HasSection(raw, "mcp_servers") THEN raw["mcp_servers"]
    ELSE EmptyMap

ClaudeUpsertServers(f, servers) ==
    LET mcp == claudeMCPServers(f.raw)
        new == Merge(mcp, [n \in DOMAIN servers |-> serverSpecToConfig(servers[n])])
    IN  File(Del(Put(f.raw, "mcpServers", new), "mcp_servers"))

ClaudeRemoveServers(f, names) ==
    LET mcp == claudeMCPServers(f.raw)
    IN  IF DOMAIN mcp = {} THEN f
        ELSE File(Del(Put(f.raw, "mcpServers", DelAll(mcp, Range(names))), "mcp_servers"))

ClaudeListServers(f) ==
    LET mcp == claudeMCPServers(f.raw)
    IN  [n \in DOMAIN mcp |-> configToServerSpec(mcp[n])]

\* Dispatch on the adapter registered under a target name (Manager.adapters).
UpsertServers(t, f, servers) ==
    IF t = TargetCodex THEN CodexUpsertServers(f, servers) ELSE ClaudeUpsertServers(f, servers)

\* An adapter whose RemoveServers writes nothing (told apart by C7).
RemoveNoServers(t, f, names) == f

RemoveServers(t, f, names) ==
    IF t = TargetCodex THEN CodexRemoveServers(f, names) ELSE ClaudeRemoveServers(f, names)

ListServers(t, f) ==
    IF t = TargetCodex THEN CodexListServers(f) ELSE ClaudeListServers(f)

(***************************************************************************)
(* GenericJSONAdapter (JSON document, servers under the client's key) with *)
(* the standard, Zed and OpenCode converters.                              *)
(***************************************************************************)
standardSpecToConfig(spec) ==
    IF spec.Transport = ServerTransportHTTP THEN Put(EmptyMap, "url", spec.URL)
    ELSE IF Len(spec.Args) > 0
    THEN Put(Put(EmptyMap, "command", spec.Command), "args", spec.Args)
    ELSE Put(EmptyMap, "command", spec.Command)

standardConfigToSpec(c) ==
    IF "url" \in DOMAIN c /\ c["url"] # ""
    THEN MCPServerSpec(ServerTransportHTTP, "", <<>>, c["url"], <<>>)
    ELSE MCPServerSpec(ServerTransportSTDIO,
                       IF "command" \in DOMAIN c THEN c["command"] ELSE "",
                       toStringSlice(c, "args"), "", <<>>)

zedSpecToConfig(spec) ==
    IF spec.Transport = ServerTransportHTTP THEN Put(EmptyMap, "url", spec.URL)
    ELSE IF Len(spec.Args) > 0
    THEN Put(Put(EmptyMap, "command", spec.Command), "args", spec.Args)
    ELSE Put(EmptyMap, "command", spec.Command)

\* The flat format; the legacy nested format keeps its command under
\* "path", which the model writes as the entry's "command_path" and
\* "command_args".
zedConfigToSpec(c) ==
    IF "url" \in DOMAIN c /\ c["url"] # ""
    THEN MCPServerSpec(ServerTransportHTTP, "", <<>>, c["url"], <<>>)
    ELSE IF "command" \in DOMAIN c
    THEN MCPServerSpec(ServerTransportSTDIO, c["command"], toStringSlice(c, "args"), "", <<>>)
    ELSE MCPServerSpec(ServerTransportSTDIO,
                       IF "command_path" \in DOMAIN c THEN c["command_path"] ELSE "",
                       toStringSlice(c, "command_args"), "", <<>>)

opencodeSpecToConfig(spec) ==
    IF spec.Transport = ServerTransportHTTP
    THEN Put(Put(EmptyMap, "type", "remote"), "url", spec.URL)
    ELSE Put(Put(EmptyMap, "type", "local"), "command", <<spec.Command>> \o spec.Args)

\* An OpenCode reader that keeps the whole command vector as the
\* arguments (told apart by C20).
opencodeConfigToSpecWhole(c) ==
    IF "url" \in DOMAIN c /\ c["url"] # ""
    THEN MCPServerSpec(ServerTransportHTTP, "", <<>>, c["url"], <<>>)
    ELSE IF Len(toStringSlice(c, "command")) > 0
    THEN MCPServerSpec(ServerTransportSTDIO, Head(toStringSlice(c, "command")),
                       toStringSlice(c, "command"), "", <<>>)
    ELSE MCPServerSpec(ServerTransportSTDIO, "", <<>>, "", <<>>)

opencodeConfigToSpec(c) ==
    IF "url" \in DOMAIN c /\ c["url"] # ""
    THEN MCPServerSpec(ServerTransportHTTP, "", <<>>, c["url"], <<>>)
    ELSE IF Len(toStringSlice(c, "command")) > 0
    THEN MCPServerSpec(ServerTransportSTDIO, Head(toStringSlice(c, "command")),
                       Tail(toStringSlice(c, "command")), "", <<>>)
    ELSE MCPServerSpec(ServerTransportSTDIO, "", <<>>, "", <<>>)

\* The clients of knownClients that use the generic adapter, by converter.
GenericClients == {"cursor", "zed", "opencode"}

\* clientDef.serverKeys
serverKeys(client) ==
    CASE client = "zed" -> "context_servers" [] client = "opencode" -> "mcp" [] OTHER -> "mcpServers"

\* clientDef.toConfig, the standard converter when none is given.
toConfig(client, spec) ==
    CASE client = "zed" -> zedSpecToConfig(spec)
      [] client = "opencode" -> opencodeSpecToConfig(spec)
      [] OTHER -> standardSpecToConfig(spec)

fromConfig(client, c) ==
    CASE client = "zed" -> zedConfigToSpec(c)
      [] client = "opencode" -> opencodeConfigToSpec(c)
      [] OTHER -> standardConfigToSpec(c)

\* getNestedMap(raw, serverKeys), the empty map if there is none.
getNestedMap(client, raw) ==
    IF HasSection(raw, serverKeys(client)) THEN raw[serverKeys(client)] ELSE EmptyMap

\* A JSON number of the document, hi * 2^30 + lo with lo < 2^30 (the
\* numbers of the model are below 2^54).
JSONNumber(hi, lo) == [hi |-> hi, lo |-> lo]

\* The float64 that json.Unmarshal stores for a number when the target is
\* map[string]any: exact below 2^53; from 2^53 to 2^54 the nearest even
\* integer, a tie going to the even mantissa.
Float64(n) ==
    IF n.hi < 2^23 \/ n.lo % 2 = 0 THEN n
    ELSE IF ((n.lo - 1) \div 2) % 2 = 0 THEN JSONNumber(n.hi, n.lo - 1)
    ELSE IF n.lo + 1 = 2^30 THEN JSONNumber(n.hi + 1, 0)
    ELSE JSONNumber(n.hi, n.lo + 1)

\* The top-level keys of the model's documents that hold a number.
NumberKeys == {"build"}

\* json.Unmarshal into map[string]any: numbers become float64, strings and
\* objects keep their value.
readRaw(f) == [k \in DOMAIN f.raw |-> IF k \in NumberKeys THEN Float64(f.raw[k]) ELSE f.raw[k]]

\* json.MarshalIndent and the write: a float64 integer is printed in full.
writeRaw(raw) == File(raw)

GenericUpsertServers(client, f, servers) ==
    writeRaw(
        Put(readRaw(f), serverKeys(client),
            Merge(getNestedMap(client, readRaw(f)),
                  [n \in DOMAIN servers |-> toConfig(client, servers[n])])))

GenericRemoveServers(client, f, names) ==
    IF ~HasSection(readRaw(f), serverKeys(client)) THEN f
    ELSE writeRaw(
             Put(readRaw(f), serverKeys(client),
                 DelAll(getNestedMap(client, readRaw(f)), Range(names))))

GenericListServers(client, f) ==
    [n \in DOMAIN getNestedMap(client, readRaw(f)) |->
        fromConfig(client, getNestedMap(client, readRaw(f))[n])]

\* The adapter createAdapter yields for a client.
AdapterUpsert(client, f, servers) ==
    IF client \in GenericClients THEN GenericUpsertServers(client, f, servers)
    ELSE UpsertServers(client, f, servers)

AdapterRemove(client, f, names) ==
    IF client \in GenericClients THEN GenericRemoveServers(client, f, names)
    ELSE RemoveServers(client, f, names)

AdapterList(client, f) ==
    IF client \in GenericClients THEN GenericListServers(client, f)
    ELSE ListServers(client, f)

(***************************************************************************)
(* Install planning (conflict.go).  Before is a pointer: <<>> when nil,    *)
(* <<spec>> otherwise.                                                     *)
(***************************************************************************)
ConflictNameExists == "name_exists"
ConflictDuplicateSpec == "duplicate_spec"
DiffAdd == "add"
DiffModify == "modify"
DiffNoop == "noop"

ServerConflict(target, name, kind, existingName) ==
    [Target |-> target, ServerName |-> name, Kind |-> kind, ExistingName |-> existingName]

ServerDiff(target, name, op, before, after) ==
    [Target |-> target, ServerName |-> name, Op |-> op, Before |-> before, After |-> after]

InstallPlan(conflicts, diffs) == [Conflicts |-> conflicts, Diffs |-> diffs]

HasConflicts(p) == Len(p.Conflicts) > 0

HasMeaningfulChanges(p) == \E i \in DOMAIN p.Diffs : p.Diffs[i].Op # DiffNoop

NeedsPrompt(p) == HasConflicts(p) \/ HasMeaningfulChanges(p)

\* A reverse index that is left empty (told apart by C17).
keyToNameEmpty(existing, order, i) == EmptyMap

\* The reverse index canonical key -> existing name, filled while ranging
\* over the existing servers in the order the map yields them: of two
\* names with one key the later one stays.
RECURSIVE keyToName(_, _, _)
keyToName(existing, order, i) ==
    IF i = 0 THEN EmptyMap
    ELSE Put(keyToName(existing, order, i - 1), canonicalKey(existing[order[i]]), order[i])

\* A plan entry that reports a changed server as an addition without a
\* conflict (told apart by C16).
PlanServerAlwaysAdd(target, name, existing, incomingSpec, index) ==
    InstallPlan(<<>>, <<ServerDiff(target, name, DiffAdd, <<>>, incomingSpec)>>)

\* The body of the loop over the incoming servers, for one of them.
PlanServer(target, name, existing, incomingSpec, index) ==
    IF name \in DOMAIN existing
    THEN IF specsEqual(existing[name], incomingSpec)
         THEN InstallPlan(<<>>, <<ServerDiff(target, name, DiffNoop, <<existing[name]>>, incomingSpec)>>)
         ELSE InstallPlan(<<ServerConflict(target, name, ConflictNameExists, "")>>,
                          <<ServerDiff(target, name, DiffModify, <<existing[name]>>, incomingSpec)>>)
    ELSE IF canonicalKey(incomingSpec) \in DOMAIN index
    THEN InstallPlan(<<ServerConflict(target, name, ConflictDuplicateSpec,
                                      index[canonicalKey(incomingSpec)])>>,
                     <<ServerDiff(target, name, DiffAdd, <<>>, incomingSpec)>>)
    ELSE InstallPlan(<<>>, <<ServerDiff(target, name, DiffAdd, <<>>, incomingSpec)>>)

JoinPlans(p, q) == InstallPlan(p.Conflicts \o q.Conflicts, p.Diffs \o q.Diffs)

\* The loop over the incoming servers for one target; the final sort puts
\* the entries of a target in the order of the server names, so they are
\* taken in that order.
RECURSIVE PlanServers(_, _, _, _, _)
PlanServers(target, names, existing, incoming, index) ==
    IF Len(names) = 0 THEN InstallPlan(<<>>, <<>>)
    ELSE JoinPlans(PlanServer(target, names[1], existing, incoming[names[1]], index),
                   PlanServers(target, Tail(names), existing, incoming, index))

\* The loop over the targets, taken in the order of the final sort;
\* orders[t] is the order in which the existing servers of t are ranged
\* over.
RECURSIVE PlanTargets(_, _, _, _)
PlanTargets(targets, c, incoming, orders) ==
    IF Len(targets) = 0 THEN InstallPlan(<<>>, <<>>)
    ELSE JoinPlans(PlanServers(targets[1], SortedSeq(DOMAIN incoming),
                               ListServers(targets[1], c[targets[1]]), incoming,
                               keyToName(ListServers(targets[1], c[targets[1]]),
                                         orders[targets[1]], Len(orders[targets[1]]))),
                   PlanTargets(Tail(targets), c, incoming, orders))

buildInstallPlan(targets, c, incoming, orders) ==
    PlanTargets(SortedSeq(Range(targets)), c, incoming, orders)

(***************************************************************************)
(* semver (github.com/Masterminds/semver/v3) over the version strings the  *)
(* model uses.  A parsed version keeps its original string.                *)
(***************************************************************************)
VersionStrings == {"1.0.0", "1.1.0", "2.0.0", "2.1.0-rc", "nightly"}

Parsed(orig, major, minor, patch, pre) ==
    [ok |-> TRUE, Original |-> orig, Major |-> major, Minor |-> minor,
     Patch |-> patch, Prerelease |-> pre]

\* semver.NewVersion
NewVersion(s) ==
    CASE s = "0.0.0" -> Parsed(s, 0, 0, 0, "")
      [] s = "1.0.0" -> Parsed(s, 1, 0, 0, "")
      [] s = "1.1.0" -> Parsed(s, 1, 1, 0, "")
      [] s = "2.0.0" -> Parsed(s, 2, 0, 0, "")
      [] s = "2.1.0-rc" -> Parsed(s, 2, 1, 0, "rc")
      [] s = "3.0.0" -> Parsed(s, 3, 0, 0, "")
      [] OTHER -> [ok |-> FALSE, Original |-> s, Major |-> 0, Minor |-> 0,
                   Patch |-> 0, Prerelease |-> ""]

\* Version.Compare: -1, 0, 1.  A release is greater than its prereleases.
Compare(a, b) ==
    IF a.Major # b.Major THEN (IF a.Major < b.Major THEN -1 ELSE 1)
    ELSE IF a.Minor # b.Minor THEN (IF a.Minor < b.Minor THEN -1 ELSE 1)
    ELSE IF a.Patch # b.Patch THEN (IF a.Patch < b.Patch THEN -1 ELSE 1)
    ELSE IF a.Prerelease = b.Prerelease THEN 0
    ELSE IF a.Prerelease = "" THEN 1
    ELSE IF b.Prerelease = "" THEN -1
    ELSE 0

\* A comparison that also accepts an equal version (told apart by C9).
GreaterOrEqual(a, b) == Compare(a, b) >= 0

GreaterThan(a, b) == Compare(a, b) = 1

\* A constraint is a conjunction of comparators (op, version string).
Comparator(op, ver) == [op |-> op, ver |-> ver]

\* fmt.Sprintf("%d", n) for the major numbers the model reaches.
Itoa(n) == CASE n = 0 -> "0" [] n = 1 -> "1" [] n = 2 -> "2" [] n = 3 -> "3" [] OTHER -> "9"

\* The text of a constraint: comparators joined by ", ".
RECURSIVE ConstraintText(_)
ConstraintText(cs) ==
    IF Len(cs) = 0 THEN ""
    ELSE IF Len(cs) = 1 THEN cs[1].op \o cs[1].ver
    ELSE cs[1].op \o cs[1].ver \o ", " \o ConstraintText(Tail(cs))

ConstraintVersions == {"0.0.0", "1.0.0", "1.1.0", "2.0.0", "2.1.0-rc", "3.0.0"}

Comparators == {Comparator(op, v) : op \in {">=", "<"}, v \in ConstraintVersions}

ConstraintUniverse ==
    {<<c>> : c \in Comparators} \cup {<<c, d>> : c \in Comparators, d \in Comparators}

\* semver.NewConstraint: the inverse of ConstraintText on ConstraintUniverse;
\* any other text is a parse error.
ConstraintTable ==
    [s \in {ConstraintText(cs) : cs \in ConstraintUniverse} |->
        CHOOSE cs \in ConstraintUniverse : ConstraintText(cs) = s]

NewConstraint(s) ==
    IF s \in DOMAIN ConstraintTable
    THEN [ok |-> TRUE, cs |-> ConstraintTable[s]]
    ELSE [ok |-> FALSE, cs |-> <<>>]

\* strings.ContainsAny(versionExpr, "<>=~^,") on the expressions of the model.
ContainsConstraintChars(s) == s \in DOMAIN ConstraintTable

\* One comparator: a prerelease version never satisfies a comparator whose
\* own version is a release (Constraints.IncludePrerelease is not set).
CheckComparator(c, v) ==
    LET con == NewVersion(c.ver)
    IN  IF v.Prerelease # "" /\ con.Prerelease = "" THEN FALSE
        ELSE IF c.op = ">=" THEN Compare(v, con) >= 0
        ELSE Compare(v, con) < 0

\* Constraints.Check
Check(cs, v) == \A i \in DOMAIN cs : CheckComparator(cs[i], v)

(***************************************************************************)
(* Manifests and tap repositories: the content the registry client reads.  *)
(***************************************************************************)
PackageManifest(name, version, description, servers, setup) ==
    [Name |-> name, Version |-> version, Description |-> description,
     MCPServers |-> servers, SetupCommands |-> setup]

NoManifest == PackageManifest("", "", "", EmptyMap, EmptyMap)

\* strings.TrimSpace on the strings of the model.
TrimSpace(s) ==
    CASE s = " " -> "" [] s = "\n" -> "" [] s = "yes\n" -> "yes" [] s = " YES\n" -> "YES"
      [] s = "no\n" -> "no" [] s = " claude" -> "claude" [] s = "skip\n" -> "skip"
      [] s = "edit\n" -> "edit" [] s = "new\n" -> "new" [] OTHER -> s

\* regexp.Compile succeeds on the patterns of the model except this one.
PatternCompiles(p) == p # "("

\* A validation that looks at the name and the version only (told apart by
\* C12).
validateManifestHeader(m) ==
    /\ TrimSpace(m.Name) # ""
    /\ TrimSpace(m.Version) # ""

validateManifest(m) ==
    /\ TrimSpace(m.Name) # ""
    /\ TrimSpace(m.Version) # ""
    /\ DOMAIN m.MCPServers # {}
    /\ \A n \in DOMAIN m.MCPServers :
          /\ TrimSpace(n) # ""
          /\ LET server == m.MCPServers[n]
             IN  CASE server.Transport = ServerTransportSTDIO -> TrimSpace(server.Command) # ""
                   [] server.Transport = ServerTransportHTTP -> TrimSpace(server.URL) # ""
                   [] OTHER -> FALSE
    /\ \A e \in DOMAIN m.SetupCommands :
          /\ Len(m.SetupCommands[e].Run) # 0
          /\ m.SetupCommands[e].Pattern # "" => PatternCompiles(m.SetupCommands[e].Pattern)

\* A manifest file: its SHA-256 in lower-case hex (fsutil.SHA256Hex), whether
\* it decodes as JSON, and the manifest it decodes to.
ManifestFile(digest, mf) == [digest |-> digest, decodes |-> TRUE, manifest |-> mf]

SpecA == MCPServerSpec(ServerTransportSTDIO, "npx", <<"-y", "a">>, "", <<"TOKEN", "KEY">>)
SpecB == StdioSpec("npx", <<"-y", "b">>)
SpecH == HTTPSpec("https://h")
SpecU == HTTPSpec("https://u")

ManifestPA10 == PackageManifest("pa", "1.0.0", "pa one", Put(EmptyMap, "s1", SpecA), EmptyMap)
ManifestPA11 ==
    PackageManifest("pa", "1.1.0", "pa one-one", Put(Put(EmptyMap, "s1", SpecB), "s2", SpecH), EmptyMap)
ManifestPA20 == PackageManifest("pa", "2.0.0", "pa two", Put(EmptyMap, "s1", SpecB), EmptyMap)
ManifestPA21rc ==
    PackageManifest("pa", "2.1.0-rc", "pa next", Put(Put(EmptyMap, "s1", SpecB), "s2", SpecH), EmptyMap)
\* The manifest published at the direct URL: package pa again.
ManifestPU ==
    PackageManifest("pa", "1.1.0", "pa direct", Put(Put(EmptyMap, "s1", SpecB), "s2", SpecU), EmptyMap)

\* One setup command of a manifest: its run vector and its pattern.
SetupCommand(run, pattern) == [Run |-> run, Pattern |-> pattern]

\* The ways a manifest can be invalid, one at a time; "sound" is valid.
Defects ==
    {"sound", "name", "blank-name", "version", "servers", "server-name", "command", "url",
     "transport", "run", "pattern"}

DefectServers(d) ==
    CASE d = "servers" -> EmptyMap
      [] d = "server-name" -> Put(Put(EmptyMap, "", SpecB), "s2", SpecH)
      [] d = "command" -> Put(Put(EmptyMap, "s1", StdioSpec("", <<"-y", "b">>)), "s2", SpecH)
      [] d = "url" -> Put(Put(EmptyMap, "s1", SpecB), "s2", HTTPSpec(""))
      [] d = "transport" ->
            Put(Put(EmptyMap, "s1", MCPServerSpec("sse", "", <<>>, "https://h", <<>>)), "s2", SpecH)
      [] OTHER -> Put(Put(EmptyMap, "s1", SpecB), "s2", SpecH)

DefectSetup(d) ==
    CASE d = "run" -> Put(EmptyMap, "KEY", SetupCommand(<<>>, ""))
      [] d = "pattern" -> Put(EmptyMap, "KEY", SetupCommand(<<"gen">>, "("))
      [] OTHER -> Put(EmptyMap, "KEY", SetupCommand(<<"gen">>, "k.*"))

\* The manifest of package pd with the one defect d.
DefectManifest(d) ==
    PackageManifest(CASE d = "name" -> "" [] d = "blank-name" -> " " [] OTHER -> "pd",
                    IF d = "version" THEN "" ELSE "1.0.0",
                    "pd", DefectServers(d), DefectSetup(d))

\* An index entry of one version (model.IndexVersion).
IndexVersion(path, sha) == [ManifestPath |-> path, SHA256 |-> sha]

\* The files of the tap repositories, by path.
TapFiles ==
    [p \in {"pa/1.0.0", "pa/1.1.0", "pa/2.0.0", "pa/2.1.0-rc"} |->
        CASE p = "pa/1.0.0" -> ManifestFile("aa10", ManifestPA10)
          [] p = "pa/1.1.0" -> ManifestFile("aa11", ManifestPA11)
          [] p = "pa/2.0.0" -> ManifestFile("aa20", ManifestPA20)
          [] OTHER -> ManifestFile("aa21", ManifestPA21rc)]

\* Index of the registry: 1.0.0 pinned (upper-case hex), 1.1.0 not pinned,
\* 2.0.0 pinned with a digest that is not the file's, and a pre-release.
FullVersions ==
    [v \in {"1.0.0", "1.1.0", "2.0.0", "2.1.0-rc"} |->
        CASE v = "1.0.0" -> IndexVersion("pa/1.0.0", "AA10")
          [] v = "1.1.0" -> IndexVersion("pa/1.1.0", "")
          [] v = "2.0.0" -> IndexVersion("pa/2.0.0", "bb20")
          [] OTHER -> IndexVersion("pa/2.1.0-rc", "")]

FullIndex == Put(EmptyMap, "pa", [Description |-> "pa", Versions |-> FullVersions])

RegistryURL == "/srv/registry"

\* A materialized tap: whether index.json is there, its packages, the files,
\* whether signature and certificate files and the cosign tool exist, the
\* identities for which cosign accepts the signatures, and whether
\* index.json decodes.
TapRepo(index) ==
    [hasIndex |-> TRUE, Packages |-> index, files |-> TapFiles,
     signed |-> FALSE, cosign |-> FALSE, accepts |-> {}, decodes |-> TRUE]

\* A second registry: package pd, one index version per defect, named
\* after it, none pinned.
DefectRegistryURL == "/srv/defects"

DefectPath(d) == "pd/" \o d \o ".json"

DefectRepo ==
    [hasIndex |-> TRUE,
     Packages |-> Put(EmptyMap, "pd", [Description |-> "pd",
                                       Versions |-> [d \in Defects |-> IndexVersion(DefectPath(d), "")]]),
     files |-> [f \in {DefectPath(d) : d \in Defects} |->
                   ManifestFile("dd", DefectManifest(CHOOSE d \in Defects : DefectPath(d) = f))],
     signed |-> FALSE, cosign |-> FALSE, accepts |-> {}, decodes |-> TRUE]

\* materializeTap + os.ReadFile(index.json) by tap URL.
Materialize(url) == IF url = DefectRegistryURL THEN DefectRepo ELSE TapRepo(FullIndex)

\* Direct sources: readURLOrFile.
DirectURL == "file:///m/pu.json"
DirectURLs == {DirectURL}

\* The direct URL that serves the manifest with defect d.
DefectURL(d) == "file:///m/" \o d \o ".json"

ReadURLOrFile(url) ==
    IF url = DirectURL
    THEN [ok |-> TRUE, file |-> ManifestFile("cc01", ManifestPU)]
    ELSE IF url \in {DefectURL(d) : d \in Defects}
    THEN [ok |-> TRUE,
          file |-> ManifestFile("dd", DefectManifest(CHOOSE d \in Defects : DefectURL(d) = url))]
    ELSE [ok |-> FALSE, file |-> ManifestFile("", NoManifest)]

\* strings.ToLower, the case folding of strings.EqualFold.
ToLower(s) ==
    CASE s = "AA10" -> "aa10" [] s = "AA11" -> "aa11" [] s = "AA20" -> "aa20"
      [] s = "BB20" -> "bb20" [] s = "YES" -> "yes" [] s = "Codex" -> "codex"
      [] OTHER -> s

EqualFold(a, b) == ToLower(a) = ToLower(b)

(***************************************************************************)
(* Trust verifier (verify.go).                                             *)
(***************************************************************************)
TapConfig(name, url, mode, ids) ==
    [Name |-> name, URL |-> url, Trust |-> [Mode |-> mode, Identities |-> ids]]

\* A verifier that only looks for the tool (told apart by C25).
verifyToolInstalled(repo, ids) == repo.cosign

\* verifyWithAnyIdentity: the tool must be installed and accept the payload
\* for one of the identities.
verifyWithAnyIdentity(repo, ids) == repo.cosign /\ \E id \in ids : id \in repo.accepts

VerifyTapIndex(tap, repo) ==
    CASE tap.Trust.Mode \in {"", TrustModeHash} -> TRUE
      [] tap.Trust.Mode = TrustModeCosign ->
            /\ tap.Trust.Identities # {}
            /\ repo.signed
            /\ verifyWithAnyIdentity(repo, tap.Trust.Identities)
      [] OTHER -> FALSE

VerifyManifest(tap, repo) ==
    CASE tap.Trust.Mode \in {"", TrustModeHash} -> TRUE
      [] tap.Trust.Mode = TrustModeCosign ->
            /\ tap.Trust.Identities # {}
            /\ repo.signed
            /\ verifyWithAnyIdentity(repo, tap.Trust.Identities)
      [] OTHER -> FALSE

(***************************************************************************)
(* Registry client (registry.go).  A resolution is a record whose err is   *)
(* "" on success.                                                          *)
(***************************************************************************)
Resolved(err, mf, digest, version, pin) ==
    [err |-> err, Manifest |-> mf, ManifestDigest |-> digest, Version |-> version, pin |-> pin]

ResolveError(err) == Resolved(err, NoManifest, "", "", "")

NoMeta == IndexVersion("", "")

\* The greatest, by semver order, of the version strings in S.
MaxVersion(S) ==
    CHOOSE v \in S : \A w \in S : Compare(NewVersion(v), NewVersion(w)) >= 0

\* A constraint branch that returns the least matching version (told apart
\* by C11).
resolveConstraintLeast(pkg, constraint, matching) ==
    IF ~constraint.ok
    THEN [err |-> "parse_constraint", version |-> "", meta |-> NoMeta]
    ELSE IF matching = {}
    THEN [err |-> "no_version_satisfies", version |-> "", meta |-> NoMeta]
    ELSE LET least == CHOOSE v \in matching :
                          \A w \in matching : Compare(NewVersion(v), NewVersion(w)) <= 0
         IN  [err |-> "", version |-> least, meta |-> pkg.Versions[least]]

\* resolveVersion, constraint branch: constraint is the parsed expression.
resolveConstraint(pkg, constraint, matching) ==
    IF ~constraint.ok
    THEN [err |-> "parse_constraint", version |-> "", meta |-> NoMeta]
    ELSE IF matching = {}
    THEN [err |-> "no_version_satisfies", version |-> "", meta |-> NoMeta]
    ELSE [err |-> "", version |-> MaxVersion(matching), meta |-> pkg.Versions[MaxVersion(matching)]]

\* The parseable catalog versions that satisfy the constraint.
Matching(pkg, constraint) ==
    {raw \in DOMAIN pkg.Versions : NewVersion(raw).ok /\ Check(constraint.cs, NewVersion(raw))}

resolveVersion(pkg, versionExpr) ==
    IF DOMAIN pkg.Versions = {}
    THEN [err |-> "no_versions", version |-> "", meta |-> NoMeta]
    ELSE IF versionExpr # "" /\ ~ContainsConstraintChars(versionExpr)
    THEN IF versionExpr \in DOMAIN pkg.Versions
         THEN [err |-> "", version |-> versionExpr, meta |-> pkg.Versions[versionExpr]]
         ELSE [err |-> "version_not_found", version |-> "", meta |-> NoMeta]
    ELSE resolveConstraint(pkg, NewConstraint(IF versionExpr # "" THEN versionExpr ELSE ">=0.0.0"),
                           Matching(pkg, NewConstraint(IF versionExpr # "" THEN versionExpr
                                                       ELSE ">=0.0.0")))

\* SyncTap: "" or the error.
SyncTap(tap, repo) ==
    IF tap.URL = "" THEN "empty_url"
    ELSE IF ~repo.hasIndex THEN "read_index"
    ELSE IF ~VerifyTapIndex(tap, repo) THEN "integrity"
    ELSE IF ~repo.decodes THEN "decode_index"
    ELSE ""

\* A resolver that does not compare the pinned digest (told apart by C4).
HashPinSkipped(meta, file) == TRUE

\* The hash pin of ResolveFromTap: a pinned digest must equal the file's.
HashPinOK(meta, file) == meta.SHA256 # "" => EqualFold(file.digest, meta.SHA256)

\* ResolveFromTap once the manifest file is read.
ResolveFile(tap, repo, rv, file) ==
    IF ~HashPinOK(rv.meta, file) THEN ResolveError("hash_mismatch")
    ELSE IF ~VerifyManifest(tap, repo) THEN ResolveError("integrity")
    ELSE IF ~file.decodes THEN ResolveError("decode")
    ELSE IF ~validateManifest(file.manifest) THEN ResolveError("validation")
    ELSE Resolved("", file.manifest, file.digest, rv.version, rv.meta.SHA256)

\* ResolveFromTap once the version is resolved.
ResolveVersioned(tap, repo, rv) ==
    IF rv.err # "" THEN ResolveError(rv.err)
    ELSE IF rv.meta.ManifestPath \notin DOMAIN repo.files THEN ResolveError("read_manifest")
    ELSE ResolveFile(tap, repo, rv, repo.files[rv.meta.ManifestPath])

\* ResolveFromTap once the tap is synced (sync is "" or SyncTap's error).
ResolveSynced(tap, repo, name, versionExpr, sync) ==
    IF sync # "" THEN ResolveError(sync)
    ELSE IF name \notin DOMAIN repo.Packages THEN ResolveError("package_not_found")
    ELSE ResolveVersioned(tap, repo, resolveVersion(repo.Packages[name], versionExpr))

ResolveFromRepo(tap, repo, name, versionExpr) ==
    ResolveSynced(tap, repo, name, versionExpr, SyncTap(tap, repo))

ResolveFromTap(tap, name, versionExpr) ==
    ResolveFromRepo(tap, Materialize(tap.URL), name, versionExpr)

\* A range that never stops at the next major (told apart by C8).
UpgradeExprAnyMajor(currentVersion, allowMajor) == ""

\* The range ResolveUpgrade asks for: ">=current, <nextMajor.0.0", or all.
UpgradeExpr(currentVersion, allowMajor) ==
    IF allowMajor THEN ""
    ELSE ">=" \o currentVersion \o ", <" \o Itoa(NewVersion(currentVersion).Major + 1) \o ".0.0"

\* ResolveUpgrade: the resolution and whether it is an upgrade.
UpgradeOutcome(err, upgraded, resolved) ==
    [err |-> err, upgraded |-> upgraded, resolved |-> resolved]

\* ResolveUpgrade once ResolveFromTap has returned.
CompareResolved(resolved, currentVersion) ==
    IF resolved.err # "" THEN UpgradeOutcome(resolved.err, FALSE, ResolveError(""))
    ELSE IF ~NewVersion(currentVersion).ok
    THEN UpgradeOutcome("parse_current", FALSE, ResolveError(""))
    ELSE IF ~NewVersion(resolved.Version).ok
    THEN UpgradeOutcome("parse_resolved", FALSE, ResolveError(""))
    ELSE IF ~GreaterThan(NewVersion(resolved.Version), NewVersion(currentVersion))
    THEN UpgradeOutcome("", FALSE, ResolveError(""))
    ELSE UpgradeOutcome("", TRUE, resolved)

\* ResolveUpgrade once the tap is synced (sync is "" or SyncTap's error).
UpgradeSynced(tap, repo, name, currentVersion, allowMajor, sync) ==
    IF sync # "" THEN UpgradeOutcome(sync, FALSE, ResolveError(""))
    ELSE IF name \notin DOMAIN repo.Packages
    THEN UpgradeOutcome("package_not_found", FALSE, ResolveError(""))
    ELSE IF ~allowMajor /\ ~NewVersion(currentVersion).ok
    THEN UpgradeOutcome("parse_current", FALSE, ResolveError(""))
    ELSE CompareResolved(ResolveFromRepo(tap, repo, name, UpgradeExpr(currentVersion, allowMajor)),
                         currentVersion)

ResolveUpgradeFromRepo(tap, repo, name, currentVersion, allowMajor) ==
    UpgradeSynced(tap, repo, name, currentVersion, allowMajor, SyncTap(tap, repo))

ResolveUpgrade(tap, name, currentVersion, allowMajor) ==
    ResolveUpgradeFromRepo(tap, Materialize(tap.URL), name, currentVersion, allowMajor)

\* ResolveFromURL once readURLOrFile has returned.
ResolveRead(rd) ==
    IF ~rd.ok THEN ResolveError("fetch")
    ELSE IF ~rd.file.decodes THEN ResolveError("decode")
    ELSE IF ~validateManifest(rd.file.manifest) THEN ResolveError("validation")
    ELSE Resolved("", rd.file.manifest, rd.file.digest, rd.file.manifest.Version, "")

ResolveFromURL(url) == ResolveRead(ReadURLOrFile(url))

(***************************************************************************)
(* The ledger store (state.Store) and the default state.                   *)
(***************************************************************************)
State(taps, installed, trusted) ==
    [exists |-> TRUE, Taps |-> taps, Installed |-> installed, TrustedDirectSources |-> trusted]

\* No ledger file on disk.
NoLedger ==
    [exists |-> FALSE, Taps |-> EmptyMap, Installed |-> EmptyMap, TrustedDirectSources |-> EmptyMap]

DefaultTap == TapConfig(DefaultTapName, DefaultTapURL, TrustModeCosign, {})

NewDefaultState == State(Put(EmptyMap, DefaultTapName, DefaultTap), EmptyMap, EmptyMap)

\* Store.Load: the state handed to the caller; a missing default tap is
\* put back in the state returned.
LoadedState(file) ==
    IF ~file.exists THEN NewDefaultState
    ELSE IF DefaultTapName \in DOMAIN file.Taps THEN file
    ELSE [file EXCEPT !.Taps = Put(file.Taps, DefaultTapName, DefaultTap)]

\* A Load that does not write the default state (told apart by C22).
FileLeftByLoad(file) == file

\* Store.Load: the file it leaves; a missing file is created at once.
FileAfterLoad(file) == IF ~file.exists THEN NewDefaultState ELSE file

(***************************************************************************)
(* I/O faults a call may meet: reading the ledger, saving it, an adapter's *)
(* UpsertServers or RemoveServers on given targets.                        *)
(***************************************************************************)
Fault(load, save, upsert, remove) ==
    [load |-> load, save |-> save, upsert |-> upsert, remove |-> remove]

NoFault == Fault(FALSE, FALSE, {}, {})

Targets == {TargetCodex, TargetClaude}

StoreFaults == {NoFault, Fault(TRUE, FALSE, {}, {}), Fault(FALSE, TRUE, {}, {})}

ApplyFaults ==
    StoreFaults \cup
    {Fault(FALSE, FALSE, {t}, {}) : t \in Targets} \cup
    {Fault(FALSE, FALSE, {t}, Targets \ {t}) : t \in Targets}

RemoveFaults == StoreFaults \cup {Fault(FALSE, FALSE, {}, {t}) : t \in Targets}

(***************************************************************************)
(* Manager.resolveTargets.  A target token is a comma-separated list.      *)
(***************************************************************************)
RECURSIVE JoinComma(_)
JoinComma(parts) ==
    IF Len(parts) = 0 THEN ""
    ELSE IF Len(parts) = 1 THEN parts[1]
    ELSE parts[1] \o "," \o JoinComma(Tail(parts))

TargetParts == {"codex", "claude", "cursor", "Codex", " claude", ""}

PartLists ==
    {<<a>> : a \in TargetParts} \cup {<<a, b>> : a \in TargetParts, b \in TargetParts}

\* strings.Split(target, ","): the inverse of JoinComma on PartLists.
SplitComma(s) == CHOOSE ps \in PartLists : JoinComma(ps) = s

RECURSIVE CollectTargets(_, _, _)
CollectTargets(parts, i, out) ==
    IF i > Len(parts) THEN [err |-> (IF Len(out) = 0 THEN "no_valid_targets" ELSE ""), targets |-> out]
    ELSE LET p == ToLower(TrimSpace(parts[i]))
         IN  IF p = "" THEN CollectTargets(parts, i + 1, out)
             ELSE IF p # TargetCodex /\ p # TargetClaude
             THEN [err |-> "unknown_target", targets |-> <<>>]
             ELSE IF p \in Range(out) THEN CollectTargets(parts, i + 1, out)
             ELSE CollectTargets(parts, i + 1, Append(out, p))

resolveTargets(target) ==
    IF TrimSpace(target) = "" \/ TrimSpace(target) = TargetAll
    THEN [err |-> "", targets |-> <<TargetCodex, TargetClaude>>]
    ELSE CollectTargets(SplitComma(TrimSpace(target)), 1, <<>>)

(***************************************************************************)
(* Manager.applyInstall: the writes to the host configs, with rollback,    *)
(* and the ledger entry it builds.                                         *)
(***************************************************************************)
SourceRef(type, tap, url) == [Type |-> type, Tap |-> tap, URL |-> url]

InstalledPackage(name, version, description, source, digest, servers, targets, installedAt, updatedAt) ==
    [Name |-> name, Version |-> version, Description |-> description, Source |-> source,
     ManifestDigest |-> digest, Servers |-> servers, Targets |-> targets,
     InstalledAt |-> installedAt, UpdatedAt |-> updatedAt]

\* The zero InstalledPackage read from a map that lacks the key.
ZeroPackage == InstalledPackage("", "", "", SourceRef("", "", ""), "", <<>>, <<>>, 0, 0)

Lookup(installed, name) == IF name \in DOMAIN installed THEN installed[name] ELSE ZeroPackage

\* One RemoveServers call of the rollback.
RemoveCallOn(target, names) == [target |-> target, names |-> names]

\* A rollback that goes over the applied targets first to last (told apart
\* by C30).
RECURSIVE RollbackCallsForward(_, _, _)
RollbackCallsForward(applied, i, names) ==
    IF i = 0 THEN <<>>
    ELSE Append(RollbackCallsForward(applied, i - 1, names), RemoveCallOn(applied[i], names))

\* The compensating RemoveServers calls in the order they are issued: from
\* applied[i] down to applied[1].
RECURSIVE RollbackCalls(_, _, _)
RollbackCalls(applied, i, names) ==
    IF i = 0 THEN <<>>
    ELSE <<RemoveCallOn(applied[i], names)>> \o RollbackCalls(applied, i - 1, names)

\* The configs the calls leave; the error of a call that fails is dropped.
RECURSIVE RunRemoves(_, _, _, _)
RunRemoves(calls, j, c, fault) ==
    IF j > Len(calls) THEN c
    ELSE RunRemoves(calls, j + 1,
                    IF calls[j].target \in fault.remove THEN c
                    ELSE [c EXCEPT ![calls[j].target] =
                              AdapterRemove(calls[j].target, c[calls[j].target], calls[j].names)],
                    fault)

Rollback(applied, i, c, names, fault) == RunRemoves(RollbackCalls(applied, i, names), 1, c, fault)

RECURSIVE ApplyLoop(_, _, _, _, _, _)
ApplyLoop(targets, i, c, applied, servers, fault) ==
    IF i > Len(targets)
    THEN [err |-> "", cfg |-> c, applied |-> applied, failed |-> "", removes |-> <<>>]
    ELSE LET t == targets[i]
         IN  IF t \in fault.upsert
             THEN [err |-> "apply", cfg |-> Rollback(applied, Len(applied), c, keys(servers), fault),
                   applied |-> applied, failed |-> t,
                   removes |-> RollbackCalls(applied, Len(applied), keys(servers))]
             ELSE ApplyLoop(targets, i + 1, [c EXCEPT ![t] = AdapterUpsert(t, c[t], servers)],
                            Append(applied, t), servers, fault)

\* An entry that records the targets requested by default instead of the
\* targets applied (told apart by C6).
ApplyEntryAllTargets(cur, manifest, digest, source, targets, t) ==
    InstalledPackage(manifest.Name, manifest.Version, manifest.Description, source, digest,
                     keys(manifest.MCPServers), <<TargetCodex, TargetClaude>>,
                     IF cur.Name = "" THEN t ELSE cur.InstalledAt, t)

\* The entry applyInstall returns on success.
ApplyEntry(cur, manifest, digest, source, targets, t) ==
    InstalledPackage(manifest.Name, manifest.Version, manifest.Description, source, digest,
                     keys(manifest.MCPServers), targets,
                     IF cur.Name = "" THEN t ELSE cur.InstalledAt, t)

ApplyResult(err, c, cur, targets, applied, failed) ==
    [err |-> err, cfg |-> c, cur |-> cur, targets |-> targets, applied |-> applied,
     failed |-> failed]

\* applyInstall once the loop over the targets has ended.
ApplyRun(st, manifest, digest, source, targets, run, t) ==
    IF run.err # "" THEN ApplyResult(run.err, run.cfg, ZeroPackage, targets, run.applied, run.failed)
    ELSE ApplyResult("", run.cfg,
                     ApplyEntry(Lookup(st.Installed, manifest.Name), manifest, digest, source,
                                targets, t),
                     targets, run.applied, "")

\* applyInstall once resolveTargets has returned.
ApplyResolved(st, c, manifest, digest, source, rt, fault, t) ==
    IF rt.err # "" THEN ApplyResult(rt.err, c, ZeroPackage, <<>>, <<>>, "")
    ELSE ApplyRun(st, manifest, digest, source, rt.targets,
                  ApplyLoop(rt.targets, 1, c, <<>>, manifest.MCPServers, fault), t)

applyInstall(st, c, manifest, digest, source, target, fault, t) ==
    ApplyResolved(st, c, manifest, digest, source, resolveTargets(target), fault, t)

(***************************************************************************)
(* Manager operations.  Each yields the outcome of the whole call: the     *)
(* error ("" on success), the ledger file and the host configs it leaves,  *)
(* and what it returned or did on the way.                                 *)
(***************************************************************************)
Outcome(err, file, c, out) == [err |-> err, ledger |-> file, cfg |-> c, out |-> out]

\* What an install returned and did: the entry returned, the manifest
\* resolved, the expanded target list, the targets written before a failure
\* and the failed target, whether the manifest was fetched, and the index
\* entry and file the resolution selected.
InstallOut(installed, manifest, targets, applied, failed, fetched, sel) ==
    [installed |-> installed, manifest |-> manifest, targets |-> targets,
     applied |-> applied, failed |-> failed, fetched |-> fetched, sel |-> sel]

\* The index entry and manifest file a resolution selected, once it has read
\* the file: the version, the pinned digest and the digest of the file.
Selected(version, pin, digest) == [version |-> version, pin |-> pin, digest |-> digest]

NoSelected == Selected("", "", "")

SelectedVersion(repo, rv) ==
    IF rv.err # "" \/ rv.meta.ManifestPath \notin DOMAIN repo.files THEN NoSelected
    ELSE Selected(rv.version, rv.meta.SHA256, repo.files[rv.meta.ManifestPath].digest)

SelectedFromRepo(tap, repo, name, versionExpr) ==
    IF SyncTap(tap, repo) # "" \/ name \notin DOMAIN repo.Packages THEN NoSelected
    ELSE SelectedVersion(repo, resolveVersion(repo.Packages[name], versionExpr))

SelectedFromTap(tap, name, versionExpr) ==
    SelectedFromRepo(tap, Materialize(tap.URL), name, versionExpr)

NoInstall(fetched, sel) == InstallOut(ZeroPackage, NoManifest, <<>>, <<>>, "", fetched, sel)

InstallRequest(name, version, tap, target) ==
    [Name |-> name, Version |-> version, Tap |-> tap, Target |-> target]

\* A stamp that sets the install timestamp anew on every install (told
\* apart by C29).
StampAnew(cur, resolved, version, source, t) ==
    [cur EXCEPT !.Version = version,
                !.Description = resolved.Manifest.Description,
                !.Source = source,
                !.ManifestDigest = resolved.ManifestDigest,
                !.UpdatedAt = t,
                !.InstalledAt = t]

\* The fields InstallFromTap and InstallFromURL set on the entry returned
\* by applyInstall.
Stamp(cur, resolved, version, source, t) ==
    [cur EXCEPT !.Version = version,
                !.Description = resolved.Manifest.Description,
                !.Source = source,
                !.ManifestDigest = resolved.ManifestDigest,
                !.UpdatedAt = t,
                !.InstalledAt = IF cur.InstalledAt = 0 THEN t ELSE cur.InstalledAt]

\* st.Installed[installed.Name] = installed; store.Save(st)
StoreInstall(file0, st, fault, c, out) ==
    IF fault.save THEN Outcome("save", file0, c, [out EXCEPT !.installed = ZeroPackage])
    ELSE Outcome("", [st EXCEPT !.Installed = Put(st.Installed, out.installed.Name, out.installed)],
                 c, out)

\* An install that saves the package's entry and then returns the error of
\* applyInstall (told apart by C2).
SaveInstallRecordingFailure(file0, st, resolved, version, source, fault, t, sel, ap) ==
    [StoreInstall(file0, st, fault, ap.cfg,
                  InstallOut(Stamp(ApplyEntry(ZeroPackage, resolved.Manifest, resolved.ManifestDigest,
                                              source, ap.targets, t),
                                   resolved, version, source, t),
                             resolved.Manifest, ap.targets, ap.applied, ap.failed, TRUE, sel))
        EXCEPT !.err = IF ap.err # "" THEN ap.err ELSE @]

\* An install once applyInstall has returned.
SaveInstall(file0, st, resolved, version, source, fault, t, sel, ap) ==
    IF ap.err # ""
    THEN Outcome(ap.err, file0, ap.cfg,
                 InstallOut(ZeroPackage, NoManifest, ap.targets, ap.applied, ap.failed, TRUE, sel))
    ELSE StoreInstall(file0, st, fault, ap.cfg,
                      InstallOut(Stamp(ap.cur, resolved, version, source, t), resolved.Manifest,
                                 ap.targets, ap.applied, "", TRUE, sel))

\* The tail InstallFromTap and InstallFromURL share.
FinishInstall(file0, st, c, resolved, version, source, target, fault, t, sel) ==
    SaveInstall(file0, st, resolved, version, source, fault, t, sel,
                applyInstall(st, c, resolved.Manifest, resolved.ManifestDigest, source, target,
                             fault, t))

\* InstallFromTap once ResolveFromTap has returned.
InstallFromTapResolved(st, file0, c, req, tap, resolved, sel, fault, t) ==
    IF resolved.err # "" THEN Outcome(resolved.err, file0, c, NoInstall(TRUE, sel))
    ELSE FinishInstall(file0, st, c, resolved, resolved.Version,
                       SourceRef(SourceTypeTap, tap.Name, ""), req.Target, fault, t, sel)

\* InstallFromTap once the ledger is loaded.
InstallFromTapLoaded(st, file0, c, req, tapName, fault, t) ==
    IF tapName \notin DOMAIN st.Taps
    THEN Outcome("tap_not_found", file0, c, NoInstall(FALSE, NoSelected))
    ELSE InstallFromTapResolved(st, file0, c, req, st.Taps[tapName],
                                ResolveFromTap(st.Taps[tapName], req.Name, req.Version),
                                SelectedFromTap(st.Taps[tapName], req.Name, req.Version),
                                fault, t)

InstallFromTapCall(file, c, req, fault, t) ==
    IF fault.load THEN Outcome("load", file, c, NoInstall(FALSE, NoSelected))
    ELSE InstallFromTapLoaded(LoadedState(file), FileAfterLoad(file), c, req,
                              IF req.Tap = "" THEN DefaultTapName ELSE req.Tap, fault, t)

InstallURLRequest(url, target, yes, tty, answer) ==
    [URL |-> url, Target |-> target, Yes |-> yes, tty |-> tty, answer |-> answer]

\* A prompt that takes any line typed as consent (told apart by C3).
promptTrustAnyAnswer(tty, answer) ==
    IF ~tty THEN [err |-> "non_interactive", approved |-> FALSE]
    ELSE [err |-> "", approved |-> TRUE]

\* promptTrust: stdin must be a terminal; the line read is trimmed and
\* compared with "yes" ignoring case.
promptTrust(tty, answer) ==
    IF ~tty THEN [err |-> "non_interactive", approved |-> FALSE]
    ELSE [err |-> "", approved |-> EqualFold(TrimSpace(answer), "yes")]

\* The decision recorded for a URL (its creation time is left out).
TrustDecision(url) == [URL |-> url, Approved |-> TRUE]

Approved(st, url) ==
    url \in DOMAIN st.TrustedDirectSources /\ st.TrustedDirectSources[url].Approved

\* An approval that is not written into the state (told apart by C14).
TrustForgotten(st, url) == st

Trust(st, url) ==
    IF Approved(st, url) THEN st
    ELSE [st EXCEPT !.TrustedDirectSources = Put(st.TrustedDirectSources, url, TrustDecision(url))]

\* InstallFromURL once the source is trusted and ResolveFromURL has returned.
InstallFromURLResolved(st, file0, c, req, resolved, fault, t) ==
    IF resolved.err # "" THEN Outcome(resolved.err, file0, c, NoInstall(TRUE, NoSelected))
    ELSE FinishInstall(file0, st, c, resolved, resolved.Manifest.Version,
                       SourceRef(SourceTypeDirect, "", req.URL), req.Target, fault, t, NoSelected)

\* InstallFromURL once the ledger is loaded; prompt is what promptTrust
\* returns if it is called.
InstallFromURLLoaded(st, file0, c, req, prompt, fault, t) ==
    IF ~Approved(st, req.URL) /\ ~req.Yes /\ prompt.err # ""
    THEN Outcome(prompt.err, file0, c, NoInstall(FALSE, NoSelected))
    ELSE IF ~Approved(st, req.URL) /\ ~req.Yes /\ ~prompt.approved
    THEN Outcome("not_trusted", file0, c, NoInstall(FALSE, NoSelected))
    ELSE InstallFromURLResolved(Trust(st, req.URL), file0, c, req, ResolveFromURL(req.URL),
                                fault, t)

InstallFromURLCall(file, c, req, fault, t) ==
    IF fault.load THEN Outcome("load", file, c, NoInstall(FALSE, NoSelected))
    ELSE InstallFromURLLoaded(LoadedState(file), FileAfterLoad(file), c, req,
                              promptTrust(req.tty, req.answer), fault, t)

\* Remove: the RemoveServers calls over the recorded targets, in order,
\* stopping at the first that fails; a target without adapter is skipped.
RECURSIVE RemoveLoop(_, _, _, _, _)
RemoveLoop(targets, i, c, names, fault) ==
    IF i > Len(targets) THEN [err |-> "", cfg |-> c]
    ELSE IF targets[i] \notin Targets THEN RemoveLoop(targets, i + 1, c, names, fault)
    ELSE IF targets[i] \in fault.remove THEN [err |-> "remove", cfg |-> c]
    ELSE RemoveLoop(targets, i + 1,
                    [c EXCEPT ![targets[i]] = RemoveServers(targets[i], c[targets[i]], names)],
                    names, fault)

\* Remove once the loop over the targets has ended.
RemoveRun(st, file0, name, pkg, run, fault) ==
    IF run.err # "" THEN Outcome(run.err, file0, run.cfg, pkg)
    ELSE IF fault.save THEN Outcome("save", file0, run.cfg, pkg)
    ELSE Outcome("", [st EXCEPT !.Installed = Del(st.Installed, name)], run.cfg, pkg)

\* Remove once the ledger is loaded.
RemoveLoaded(st, file0, c, name, fault) ==
    IF name \notin DOMAIN st.Installed THEN Outcome("not_installed", file0, c, ZeroPackage)
    ELSE RemoveRun(st, file0, name, st.Installed[name],
                   RemoveLoop(st.Installed[name].Targets, 1, c, st.Installed[name].Servers, fault),
                   fault)

RemoveCall(file, c, name, fault) ==
    IF fault.load THEN Outcome("load", file, c, ZeroPackage)
    ELSE RemoveLoaded(LoadedState(file), FileAfterLoad(file), c, name, fault)

UpgradeResult(name, oldVersion, newVersion, wasUpgraded) ==
    [Name |-> name, OldVersion |-> oldVersion, NewVersion |-> newVersion,
     WasUpgraded |-> wasUpgraded]

UpgradeRequest(name, allowMajor) == [Name |-> name, AllowMajor |-> allowMajor]

LoopResult(err, st, c, results) == [err |-> err, st |-> st, cfg |-> c, results |-> results]

\* An upgrade that stamps the entry as installed anew (told apart by C10).
UpgradedReinstalled(pkg, resolved, t) ==
    [pkg EXCEPT !.Version = resolved.Version,
                !.Description = resolved.Manifest.Description,
                !.ManifestDigest = resolved.ManifestDigest,
                !.Servers = keys(resolved.Manifest.MCPServers),
                !.InstalledAt = t,
                !.UpdatedAt = t]

\* The fields Upgrade sets on the entry of an upgraded package.
Upgraded(pkg, resolved, t) ==
    [pkg EXCEPT !.Version = resolved.Version,
                !.Description = resolved.Manifest.Description,
                !.ManifestDigest = resolved.ManifestDigest,
                !.Servers = keys(resolved.Manifest.MCPServers),
                !.UpdatedAt = t]

\* The loop of Upgrade over the candidates, in the order the map yielded
\* them; st is the state in memory, c the host configs so far.
RECURSIVE UpgradeLoop(_, _, _, _, _, _, _, _)

\* One candidate, once applyInstall has returned.
UpgradeApplied(candidates, i, pkg, resolved, ap, st, results, allowMajor, fault, t) ==
    IF ap.err # "" THEN LoopResult(ap.err, st, ap.cfg, results)
    ELSE UpgradeLoop(candidates, i + 1,
                     [st EXCEPT !.Installed = Put(st.Installed, pkg.Name, Upgraded(pkg, resolved, t))],
                     ap.cfg,
                     Append(results, UpgradeResult(pkg.Name, pkg.Version, resolved.Version, TRUE)),
                     allowMajor, fault, t)

\* One candidate, once ResolveUpgrade has returned.
UpgradeResolved(candidates, i, pkg, tap, ru, st, c, results, allowMajor, fault, t) ==
    IF ru.err # "" THEN LoopResult(ru.err, st, c, results)
    ELSE IF ~ru.upgraded
    THEN UpgradeLoop(candidates, i + 1, st, c,
                     Append(results, UpgradeResult(pkg.Name, pkg.Version, pkg.Version, FALSE)),
                     allowMajor, fault, t)
    ELSE UpgradeApplied(candidates, i, pkg, ru.resolved,
                        applyInstall(st, c, ru.resolved.Manifest, ru.resolved.ManifestDigest,
                                     SourceRef(SourceTypeTap, tap.Name, ""),
                                     JoinComma(pkg.Targets), fault, t),
                        st, results, allowMajor, fault, t)

\* One candidate.
UpgradeOne(candidates, i, pkg, st, c, results, allowMajor, fault, t) ==
    IF pkg.Source.Type # SourceTypeTap \/ pkg.Source.Tap = ""
    THEN UpgradeLoop(candidates, i + 1, st, c,
                     Append(results, UpgradeResult(pkg.Name, pkg.Version, pkg.Version, FALSE)),
                     allowMajor, fault, t)
    ELSE IF pkg.Source.Tap \notin DOMAIN st.Taps
    THEN LoopResult("tap_not_configured", st, c, results)
    ELSE UpgradeResolved(candidates, i, pkg, st.Taps[pkg.Source.Tap],
                         ResolveUpgrade(st.Taps[pkg.Source.Tap], pkg.Name, pkg.Version, allowMajor),
                         st, c, results, allowMajor, fault, t)

UpgradeLoop(candidates, i, st, c, results, allowMajor, fault, t) ==
    IF i > Len(candidates) THEN LoopResult("", st, c, results)
    ELSE UpgradeOne(candidates, i, candidates[i], st, c, results, allowMajor, fault, t)

\* The orders in which ranging over a map with the keys S can yield them.
Orders(S) ==
    {o \in [1..Cardinality(S) -> S] : \A i, j \in 1..Cardinality(S) : i # j => o[i] # o[j]}

\* Upgrade once the loop over the candidates has ended.
UpgradeRun(file0, run, fault) ==
    IF run.err # "" THEN Outcome(run.err, file0, run.cfg, <<>>)
    ELSE IF fault.save THEN Outcome("save", file0, run.cfg, <<>>)
    ELSE Outcome("", run.st, run.cfg, run.results)

\* Upgrade once the ledger is loaded.
UpgradeLoaded(st, file0, c, req, order, fault, t) ==
    IF req.Name # "" /\ req.Name \notin DOMAIN st.Installed
    THEN Outcome("not_installed", file0, c, <<>>)
    ELSE UpgradeRun(file0,
                    UpgradeLoop(IF req.Name # "" THEN <<st.Installed[req.Name]>>
                                ELSE [i \in 1..Len(order) |-> st.Installed[order[i]]],
                                1, st, c, <<>>, req.AllowMajor, fault, t),
                    fault)

UpgradeCall(file, c, req, order, fault, t) ==
    IF fault.load THEN Outcome("load", file, c, <<>>)
    ELSE UpgradeLoaded(LoadedState(file), FileAfterLoad(file), c, req, order, fault, t)

TapAddRequest(name, url) == [Name |-> name, URL |-> url]

\* TapAdd once the ledger is loaded.
TapAddLoaded(st, file0, c, req, fault) ==
    IF req.Name = "" THEN Outcome("name_required", file0, c, <<>>)
    ELSE IF req.URL = "" THEN Outcome("url_required", file0, c, <<>>)
    ELSE IF fault.save THEN Outcome("save", file0, c, <<>>)
    ELSE Outcome("", [st EXCEPT !.Taps = Put(st.Taps, req.Name,
                                            TapConfig(req.Name, req.URL, TrustModeHash, {}))],
                 c, <<>>)

TapAddCall(file, c, req, fault) ==
    IF fault.load THEN Outcome("load", file, c, <<>>)
    ELSE TapAddLoaded(LoadedState(file), FileAfterLoad(file), c, req, fault)

\* A TapRemove that also drops the trust decisions (told apart by C15).
TapRemoveRevoking(st, file0, c, name, fault) ==
    IF name \notin DOMAIN st.Taps THEN Outcome("tap_not_found", file0, c, <<>>)
    ELSE IF fault.save THEN Outcome("save", file0, c, <<>>)
    ELSE Outcome("", [st EXCEPT !.Taps = Del(st.Taps, name), !.TrustedDirectSources = EmptyMap],
                 c, <<>>)

\* TapRemove once the ledger is loaded.
TapRemoveLoaded(st, file0, c, name, fault) ==
    IF name \notin DOMAIN st.Taps THEN Outcome("tap_not_found", file0, c, <<>>)
    ELSE IF fault.save THEN Outcome("save", file0, c, <<>>)
    ELSE Outcome("", [st EXCEPT !.Taps = Del(st.Taps, name)], c, <<>>)

\* A TapRemove that takes any name (told apart by C23).
TapRemoveAnyName(file, c, name, fault) ==
    IF fault.load THEN Outcome("load", file, c, <<>>)
    ELSE TapRemoveLoaded(LoadedState(file), FileAfterLoad(file), c, name, fault)

TapRemoveCall(file, c, name, fault) ==
    IF name = DefaultTapName THEN Outcome("default_tap", file, c, <<>>)
    ELSE IF fault.load THEN Outcome("load", file, c, <<>>)
    ELSE TapRemoveLoaded(LoadedState(file), FileAfterLoad(file), c, name, fault)

(***************************************************************************)
(* Manager.Doctor.  The host it runs on: the commands found on PATH and    *)
(* the (package, variable) secrets in the keyring; hit names what fails:   *)
(* the ledger read, ListServers or UpsertServers on given targets.         *)
(***************************************************************************)
DoctorIssue(pkg, target, kind, detail) ==
    [Package |-> pkg, Target |-> target, Kind |-> kind, Detail |-> detail]

DoctorHost(path, secrets) == [path |-> path, secrets |-> secrets]

DoctorFault(load, list, upsert) == [load |-> load, list |-> list, upsert |-> upsert]

\* resolveManifestForInstalled
resolveManifestForInstalled(st, pkg) ==
    CASE pkg.Source.Type = SourceTypeTap ->
            IF pkg.Source.Tap \notin DOMAIN st.Taps THEN ResolveError("tap_not_configured")
            ELSE ResolveFromTap(st.Taps[pkg.Source.Tap], pkg.Name, pkg.Version)
      [] pkg.Source.Type = SourceTypeDirect -> ResolveFromURL(pkg.Source.URL)
      [] OTHER -> ResolveError("unknown_source_type")

\* The missing_secret issues of one server that is present, in the order of
\* EnvRequired.
RECURSIVE SecretIssues(_, _, _, _, _, _)
SecretIssues(pkg, target, name, env, i, host) ==
    IF i > Len(env) THEN <<>>
    ELSE (IF <<pkg, env[i]>> \in host.secrets THEN <<>>
          ELSE <<DoctorIssue(pkg, target, "missing_secret", name \o ":" \o env[i])>>)
         \o SecretIssues(pkg, target, name, env, i + 1, host)

\* The issues of one server that is present.
PresentIssues(pkg, target, name, expected, actual, host) ==
    (IF expected.Transport = ServerTransportSTDIO /\ actual.Command \notin host.path
     THEN <<DoctorIssue(pkg, target, "missing_command", name \o " (" \o actual.Command \o ")")>>
     ELSE <<>>)
    \o SecretIssues(pkg, target, name, expected.EnvRequired, 1, host)

\* The loop over the manifest's servers (taken in the order of their
\* names): the issues, and the names that are missing.
RECURSIVE DoctorServers(_, _, _, _, _, _)
DoctorServers(pkg, target, names, expected, servers, host) ==
    IF Len(names) = 0 THEN [issues |-> <<>>, missing |-> {}]
    ELSE LET rest == DoctorServers(pkg, target, Tail(names), expected, servers, host)
         IN  IF Head(names) \notin DOMAIN servers
             THEN [issues |-> <<DoctorIssue(pkg, target, "missing_server", Head(names))>>
                                  \o rest.issues,
                   missing |-> {Head(names)} \cup rest.missing]
             ELSE [issues |-> PresentIssues(pkg, target, Head(names), expected[Head(names)],
                                            servers[Head(names)], host) \o rest.issues,
                   missing |-> rest.missing]

\* A fix pass that writes nothing (told apart by C27).
DoctorFixNothing(target, f, expected, missing) == f

\* The fix pass: UpsertServers of the missing servers.
DoctorFix(target, f, expected, missing) ==
    UpsertServers(target, f, [n \in missing |-> expected[n]])

\* A pass that says nothing about an adapter that cannot list (told apart
\* by C26).
DoctorTargetSilent(pkg, target, f, expected, found, fix, hit) ==
    IF target \in hit.list THEN [issues |-> <<>>, file |-> f]
    ELSE IF ~fix \/ found.missing = {} THEN [issues |-> found.issues, file |-> f]
    ELSE IF target \in hit.upsert
    THEN [issues |-> Append(found.issues, DoctorIssue(pkg, target, "fix_failed", "upsert")),
          file |-> f]
    ELSE [issues |-> found.issues, file |-> DoctorFix(target, f, expected, found.missing)]

\* The body of the loop over a package's targets; found is what the loop
\* over the servers yields on the target's listing.
DoctorTarget(pkg, target, f, expected, found, fix, hit) ==
    IF target \in hit.list
    THEN [issues |-> <<DoctorIssue(pkg, target, "adapter", "list")>>, file |-> f]
    ELSE IF ~fix \/ found.missing = {} THEN [issues |-> found.issues, file |-> f]
    ELSE IF target \in hit.upsert
    THEN [issues |-> Append(found.issues, DoctorIssue(pkg, target, "fix_failed", "upsert")),
          file |-> f]
    ELSE [issues |-> found.issues, file |-> DoctorFix(target, f, expected, found.missing)]

\* The loop over the recorded targets of one package.
RECURSIVE DoctorTargets(_, _, _, _, _, _, _, _)
DoctorTargets(pkg, targets, i, c, expected, fix, host, hit) ==
    IF i > Len(targets) THEN [issues |-> <<>>, cfg |-> c]
    ELSE LET done == DoctorTarget(pkg, targets[i], c[targets[i]], expected,
                                  DoctorServers(pkg, targets[i], keys(expected), expected,
                                                ListServers(targets[i], c[targets[i]]), host),
                                  fix, hit)
             rest == DoctorTargets(pkg, targets, i + 1, [c EXCEPT ![targets[i]] = done.file],
                                   expected, fix, host, hit)
         IN  [issues |-> done.issues \o rest.issues, cfg |-> rest.cfg]

\* The body of the loop over the installed packages.
DoctorPackage(pkg, resolved, c, fix, host, hit) ==
    IF resolved.err # ""
    THEN [issues |-> <<DoctorIssue(pkg.Name, "", "manifest", resolved.err)>>, cfg |-> c]
    ELSE DoctorTargets(pkg.Name, pkg.Targets, 1, c, resolved.Manifest.MCPServers, fix, host, hit)

\* The loop over st.Installed, in the order the map yields the packages.
RECURSIVE DoctorPackages(_, _, _, _, _, _, _)
DoctorPackages(st, order, i, c, fix, host, hit) ==
    IF i > Len(order) THEN [issues |-> <<>>, cfg |-> c]
    ELSE LET done == DoctorPackage(st.Installed[order[i]],
                                   resolveManifestForInstalled(st, st.Installed[order[i]]),
                                   c, fix, host, hit)
             rest == DoctorPackages(st, order, i + 1, done.cfg, fix, host, hit)
         IN  [issues |-> done.issues \o rest.issues, cfg |-> rest.cfg]

\* Doctor once the loop has ended.
DoctorRun(file0, run) == Outcome("", file0, run.cfg, run.issues)

DoctorCall(file, c, fix, order, host, hit) ==
    IF hit.load THEN Outcome("load", file, c, <<>>)
    ELSE DoctorRun(FileAfterLoad(file),
                   DoctorPackages(LoadedState(file), order, 1, c, fix, host, hit))

(***************************************************************************)
(* Manager.runSetupCommands.  The secret store is a map from the           *)
(* environment-variable name to the value stored for the package; stdin is *)
(* the lines yet to be read, after which every read ends in EOF or, on a   *)
(* broken terminal, in an error.                                           *)
(***************************************************************************)
SetupResult(envVar, status, detail) == [EnvVar |-> envVar, Status |-> status, Detail |-> detail]

\* A setup command on this host: what it does when it is executed, "ok"
\* (it prints the value), "failed", "timeout", "nomatch" (its output does
\* not match the pattern) or "notfound" (not in PATH).
HostedCommand(sc, does, value) ==
    [Run |-> sc.Run, Pattern |-> sc.Pattern, does |-> does, value |-> value]

\* executeSetupCommand: the error, the value, and whether the command ran.
executeSetupCommand(sc) ==
    IF Len(sc.Run) = 0 THEN [err |-> "empty", value |-> "", ran |-> FALSE]
    ELSE IF sc.does = "notfound" THEN [err |-> "notfound", value |-> "", ran |-> FALSE]
    ELSE IF sc.does \in {"timeout", "failed"} THEN [err |-> sc.does, value |-> "", ran |-> TRUE]
    ELSE IF sc.Pattern # "" /\ ~PatternCompiles(sc.Pattern)
    THEN [err |-> "pattern", value |-> "", ran |-> TRUE]
    ELSE IF sc.Pattern # "" /\ sc.does = "nomatch"
    THEN [err |-> "nomatch", value |-> "", ran |-> TRUE]
    ELSE [err |-> "", value |-> sc.value, ran |-> TRUE]

\* reader.ReadString('\n')
ReadString(in, tail) ==
    IF Len(in) > 0 THEN [line |-> Head(in), err |-> FALSE, rest |-> Tail(in)]
    ELSE [line |-> "", err |-> tail = "err", rest |-> <<>>]

SetupRun(results, secrets, ran) == [results |-> results, secrets |-> secrets, ran |-> ran]

RECURSIVE SetupLoop(_, _, _, _, _, _, _, _, _)

\* m.secret.Set and the result appended for it.
SetupStore(envVars, i, cmds, sec, in, tail, setFails, results, ran, value) ==
    IF setFails
    THEN SetupLoop(envVars, i + 1, cmds, sec, in, tail, setFails,
                   Append(results, SetupResult(envVars[i], "failed", "set")), ran)
    ELSE SetupLoop(envVars, i + 1, cmds, Put(sec, envVars[i], value), in, tail, setFails,
                   Append(results, SetupResult(envVars[i], "stored", "")), ran)

\* An edit that stores whatever was typed, an empty line too (told apart
\* by C35).
SetupEditedStoresEmpty(envVars, i, cmds, sec, tail, setFails, results, ran, typed) ==
    IF typed.err
    THEN SetupLoop(envVars, i + 1, cmds, sec, typed.rest, tail, setFails,
                   Append(results, SetupResult(envVars[i], "failed", "read input")), ran)
    ELSE SetupStore(envVars, i, cmds, sec, typed.rest, tail, setFails, results, ran,
                    TrimSpace(typed.line))

\* case "edit": typed is what was read for the value.
SetupEdited(envVars, i, cmds, sec, tail, setFails, results, ran, typed) ==
    IF typed.err
    THEN SetupLoop(envVars, i + 1, cmds, sec, typed.rest, tail, setFails,
                   Append(results, SetupResult(envVars[i], "failed", "read input")), ran)
    ELSE IF TrimSpace(typed.line) = ""
    THEN SetupLoop(envVars, i + 1, cmds, sec, typed.rest, tail, setFails,
                   Append(results, SetupResult(envVars[i], "skipped", "empty value")), ran)
    ELSE SetupStore(envVars, i, cmds, sec, typed.rest, tail, setFails, results, ran,
                    TrimSpace(typed.line))

\* The prompt "Store as ...? [yes/edit/skip]": answer is what was read.
SetupAnswered(envVars, i, cmds, sec, tail, setFails, results, ran, value, answer) ==
    IF answer.err
    THEN SetupLoop(envVars, i + 1, cmds, sec, answer.rest, tail, setFails,
                   Append(results, SetupResult(envVars[i], "failed", "read input")), ran)
    ELSE IF ToLower(TrimSpace(answer.line)) = "edit"
    THEN SetupEdited(envVars, i, cmds, sec, tail, setFails, results, ran,
                     ReadString(answer.rest, tail))
    ELSE IF ToLower(TrimSpace(answer.line)) = "yes"
    THEN SetupStore(envVars, i, cmds, sec, answer.rest, tail, setFails, results, ran, value)
    ELSE SetupLoop(envVars, i + 1, cmds, sec, answer.rest, tail, setFails,
                   Append(results, SetupResult(envVars[i], "skipped", "")), ran)

\* After executeSetupCommand has returned ex.
SetupExecuted(envVars, i, cmds, sec, in, tail, setFails, results, ran, ex) ==
    IF ex.err # ""
    THEN SetupLoop(envVars, i + 1, cmds, sec, in, tail, setFails,
                   Append(results, SetupResult(envVars[i], "failed", ex.err)),
                   IF ex.ran THEN ran \cup {envVars[i]} ELSE ran)
    ELSE SetupAnswered(envVars, i, cmds, sec, tail, setFails, results, ran \cup {envVars[i]},
                       ex.value, ReadString(in, tail))

\* The prompt "Run ... to obtain ...? [yes/skip]": answer is what was read.
SetupPrompted(envVars, i, cmds, sec, tail, setFails, results, ran, answer) ==
    IF answer.err
    THEN SetupLoop(envVars, i + 1, cmds, sec, answer.rest, tail, setFails,
                   Append(results, SetupResult(envVars[i], "failed", "read input")), ran)
    ELSE IF ToLower(TrimSpace(answer.line)) # "yes"
    THEN SetupLoop(envVars, i + 1, cmds, sec, answer.rest, tail, setFails,
                   Append(results, SetupResult(envVars[i], "skipped", "")), ran)
    ELSE SetupExecuted(envVars, i, cmds, sec, answer.rest, tail, setFails, results, ran,
                       executeSetupCommand(cmds[envVars[i]]))

\* The loop over the sorted environment-variable names.
SetupLoop(envVars, i, cmds, sec, in, tail, setFails, results, ran) ==
    IF i > Len(envVars) THEN SetupRun(results, sec, ran)
    ELSE IF envVars[i] \in DOMAIN sec
    THEN SetupLoop(envVars, i + 1, cmds, sec, in, tail, setFails,
                   Append(results, SetupResult(envVars[i], "existing", "")), ran)
    ELSE SetupPrompted(envVars, i, cmds, sec, tail, setFails, results, ran,
                       ReadString(in, tail))

runSetupCommands(cmds, interactive, sec, in, tail, setFails) ==
    IF DOMAIN cmds = {} \/ ~interactive THEN SetupRun(<<>>, sec, {})
    ELSE SetupLoop(keys(cmds), 1, cmds, sec, in, tail, setFails, <<>>, {})

\* Store.Load as a call of its own (TapList and ListInstalled make no
\* other step that touches a file): the state returned, State{} on an
\* error.  The save of a missing file's default state may fail.
LoadCall(file, c, fault) ==
    IF fault.load THEN Outcome("load", file, c, NoLedger)
    ELSE IF ~file.exists /\ fault.save THEN Outcome("save", file, c, NoLedger)
    ELSE Outcome("", FileAfterLoad(file), c, LoadedState(file))

(***************************************************************************)
(* The calls the model makes: requests, and the I/O faults they meet.      *)
(* Every request runs without faults; one request of each operation also   *)
(* runs under each fault.                                                  *)
(***************************************************************************)
TargetTokens == {TargetAll, "claude", "Codex, claude", "cursor"}

InstallRequests ==
    {InstallRequest("pa", v, "t2", tg) : v \in {"", "1.0.0", "1.1.0"}, tg \in {TargetAll, "claude"}}
    \cup {InstallRequest("pa", "1.0.0", "t2", tg) : tg \in TargetTokens}
    \cup {InstallRequest("pa", "2.1.0-rc", "t2", "claude"),
          InstallRequest("pa", "1.0.0", "", TargetAll),
          InstallRequest("pb", "", "t2", TargetAll)}

InstallCalls ==
    (InstallRequests \X {NoFault})
    \cup ({InstallRequest("pa", "1.0.0", "t2", TargetAll)} \X ApplyFaults)

\* The --yes flag, whether stdin is a terminal, and the line typed.
TrustInputs ==
    {<<TRUE, FALSE, "">>, <<FALSE, FALSE, "">>, <<FALSE, TRUE, "yes\n">>,
     <<FALSE, TRUE, " YES\n">>, <<FALSE, TRUE, "no\n">>, <<FALSE, TRUE, "">>}

InstallURLRequests ==
    {InstallURLRequest(DirectURL, TargetAll, ti[1], ti[2], ti[3]) : ti \in TrustInputs}
    \cup {InstallURLRequest("file:///m/none.json", TargetAll, TRUE, FALSE, "")}

InstallURLCalls ==
    (InstallURLRequests \X {NoFault})
    \cup ({InstallURLRequest(DirectURL, TargetAll, TRUE, FALSE, "")} \X ApplyFaults)

PackageNames == {"pa", "pb"}

RemoveCalls == (PackageNames \X {NoFault}) \cup ({"pa"} \X RemoveFaults)

UpgradeRequests == {UpgradeRequest(n, am) : n \in {"", "pa", "pb"}, am \in BOOLEAN}

UpgradeCalls ==
    (UpgradeRequests \X {NoFault}) \cup ({UpgradeRequest("pa", FALSE)} \X ApplyFaults)

TapAddRequests ==
    {TapAddRequest("t2", RegistryURL), TapAddRequest("t2", ""), TapAddRequest("", RegistryURL)}

TapAddCalls ==
    (TapAddRequests \X {NoFault}) \cup ({TapAddRequest("t2", RegistryURL)} \X StoreFaults)

TapNames == {"t2", "t3", DefaultTapName}

TapRemoveCalls == (TapNames \X {NoFault}) \cup ({"t2"} \X StoreFaults)

(***************************************************************************)
(* The state machine.  One run of the command-line program makes one       *)
(* Manager call, reports what it returned and exits; the next run finds    *)
(* the files the last one left.                                            *)
(***************************************************************************)
Last(op, err, req, out) == [op |-> op, err |-> err, req |-> req, out |-> out]

\* No call has returned in this run of the program.
Idle == Last("", "", <<>>, <<>>)

\* Host configs a user may have before the first install.
UserSpec == StdioSpec("uvx", <<"mine">>)

UserCodexFile ==
    File(Put(Put(EmptyMap, "model", "o3"),
             "mcp_servers", Put(EmptyMap, "s1", serverSpecToConfig(UserSpec))))

UserClaudeFile ==
    File(Put(Put(EmptyMap, "theme", "dark"),
             "mcp_servers", Put(EmptyMap, "s2", serverSpecToConfig(UserSpec))))

InitialConfigs ==
    {[codex |-> NoFile, claude |-> NoFile], [codex |-> UserCodexFile, claude |-> UserClaudeFile]}

\* No registry-client call has been made on a drawn catalog.
NoCall == [catalog |-> {}, current |-> "", allowMajor |-> FALSE,
           out |-> UpgradeOutcome("", FALSE, ResolveError(""))]

Init ==
    /\ ledger = NoLedger
    /\ cfg \in InitialConfigs
    /\ now = 1
    /\ last = Idle
    /\ rq = NoCall

Return(op, req, res) ==
    /\ last = Idle
    /\ ledger' = res.ledger
    /\ cfg' = res.cfg
    /\ last' = Last(op, res.err, req, res.out)
    /\ UNCHANGED <<now, rq>>

InstallFromTap ==
    \E call \in InstallCalls :
        Return("InstallFromTap", call[1],
               InstallFromTapCall(ledger, cfg, call[1], call[2], now))

InstallFromURL ==
    \E call \in InstallURLCalls :
        Return("InstallFromURL", call[1],
               InstallFromURLCall(ledger, cfg, call[1], call[2], now))

Remove ==
    \E call \in RemoveCalls :
        Return("Remove", call[1], RemoveCall(ledger, cfg, call[1], call[2]))

Upgrade ==
    \E call \in UpgradeCalls :
        \E order \in Orders(DOMAIN LoadedState(ledger).Installed) :
            Return("Upgrade", call[1], UpgradeCall(ledger, cfg, call[1], order, call[2], now))

TapAdd ==
    \E call \in TapAddCalls :
        Return("TapAdd", call[1], TapAddCall(ledger, cfg, call[1], call[2]))

TapRemove ==
    \E call \in TapRemoveCalls :
        Return("TapRemove", call[1], TapRemoveCall(ledger, cfg, call[1], call[2]))

\* The program exits.
Exit ==
    /\ last # Idle
    /\ last' = Idle
    /\ UNCHANGED <<ledger, cfg, now, rq>>

\* Time passes between runs.
Tick ==
    /\ last = Idle
    /\ now < MaxTime
    /\ now' = now + 1
    /\ UNCHANGED <<ledger, cfg, last, rq>>

Next ==
    \/ InstallFromTap
    \/ InstallFromURL
    \/ Remove
    \/ Upgrade
    \/ TapAdd
    \/ TapRemove
    \/ Exit
    \/ Tick

Spec == Init /\ [][Next]_vars

(***************************************************************************)
(* ResolveUpgrade on drawn inputs: every catalog of at most MaxCatalog     *)
(* version strings, every current version, both values of allowMajor.      *)
(* The tap is in hash mode and pins nothing; each version's manifest file  *)
(* is there.                                                               *)
(***************************************************************************)
Catalogs == {S \in SUBSET VersionStrings : Cardinality(S) <= MaxCatalog}

CatalogManifest(v) == PackageManifest("pa", v, "pa", Put(EmptyMap, "s1", SpecB), EmptyMap)

CatalogRepo(S) ==
    [hasIndex |-> TRUE,
     Packages |-> Put(EmptyMap, "pa", [Description |-> "pa",
                                       Versions |-> [v \in S |-> IndexVersion(v, "")]]),
     files |-> [v \in S |-> ManifestFile("dd", CatalogManifest(v))],
     signed |-> FALSE, cosign |-> FALSE, accepts |-> {}, decodes |-> TRUE]

CatalogTap == TapConfig("t2", RegistryURL, TrustModeHash, {})

ResolveUpgradeCall ==
    \E S \in Catalogs, current \in VersionStrings, allowMajor \in BOOLEAN :
        /\ rq' = [catalog |-> S, current |-> current, allowMajor |-> allowMajor,
                  out |-> ResolveUpgradeFromRepo(CatalogTap, CatalogRepo(S), "pa", current,
                                                 allowMajor)]
        /\ UNCHANGED <<ledger, cfg, now, last>>

NextResolve == ResolveUpgradeCall

SpecResolve == Init /\ [][NextResolve]_vars

(***************************************************************************)
(* Installs of manifests with one defect each, from the tap t3 added on    *)
(* the second registry and from the direct URLs.                           *)
(***************************************************************************)
DefectTapRequest(d) == InstallRequest("pd", d, "t3", TargetAll)

DefectURLRequests(d) ==
    {InstallURLRequest(DefectURL(d), TargetAll, ti[1], ti[2], ti[3]) :
        ti \in {<<TRUE, FALSE, "">>, <<FALSE, TRUE, "yes\n">>, <<FALSE, TRUE, "no\n">>}}

TapAddDefects ==
    Return("TapAdd", TapAddRequest("t3", DefectRegistryURL),
           TapAddCall(ledger, cfg, TapAddRequest("t3", DefectRegistryURL), NoFault))

InstallDefectFromTap ==
    \E d \in Defects :
        Return("InstallFromTap", DefectTapRequest(d),
               InstallFromTapCall(ledger, cfg, DefectTapRequest(d), NoFault, now))

InstallDefectFromURL ==
    \E d \in Defects :
        \E req \in DefectURLRequests(d) :
            Return("InstallFromURL", req, InstallFromURLCall(ledger, cfg, req, NoFault, now))

NextDefects ==
    \/ TapAddDefects
    \/ InstallDefectFromTap
    \/ InstallDefectFromURL
    \/ Exit

SpecDefects == Init /\ [][NextDefects]_vars

(***************************************************************************)
(* Two packages from two taps: pa from t2 and pd from t3, installed,       *)
(* removed and upgraded together; the taps come and go.                    *)
(***************************************************************************)
TwoTapRequests == {TapAddRequest("t2", RegistryURL), TapAddRequest("t3", DefectRegistryURL)}

TwoInstallRequests ==
    {InstallRequest("pa", "1.0.0", "t2", "claude"), InstallRequest("pd", "sound", "t3", "codex"),
     InstallRequest("pb", "", "t2", TargetAll), InstallRequest("pa", "3.0.0", "t2", TargetAll),
     InstallRequest("pa", "1.0.0", "t2", "cursor")}

TwoUpgradeRequests ==
    {UpgradeRequest("", FALSE), UpgradeRequest("", TRUE), UpgradeRequest("pb", FALSE)}

TapAddTwo ==
    \E req \in TwoTapRequests :
        Return("TapAdd", req, TapAddCall(ledger, cfg, req, NoFault))

TapRemoveTwo ==
    \E name \in {"t2", "t3"} :
        Return("TapRemove", name, TapRemoveCall(ledger, cfg, name, NoFault))

InstallTwo ==
    \E req \in TwoInstallRequests :
        Return("InstallFromTap", req, InstallFromTapCall(ledger, cfg, req, NoFault, now))

RemoveTwo ==
    \E name \in {"pa", "pb"} :
        Return("Remove", name, RemoveCall(ledger, cfg, name, NoFault))

UpgradeTwo ==
    \E req \in TwoUpgradeRequests :
        \E order \in Orders(DOMAIN LoadedState(ledger).Installed) :
            Return("Upgrade", req, UpgradeCall(ledger, cfg, req, order, NoFault, now))

NextTwo ==
    \/ TapAddTwo
    \/ TapRemoveTwo
    \/ InstallTwo
    \/ RemoveTwo
    \/ UpgradeTwo
    \/ Exit

SpecTwo == Init /\ [][NextTwo]_vars

(***************************************************************************)
(* buildInstallPlan, canonicalKey and the adapters' write-then-list on     *)
(* drawn inputs: one call in a run of the process.                         *)
(***************************************************************************)
\* The maps from a subset of names to the specs of a set.
ServerSets(names, specs) == UNION {[S -> specs] : S \in SUBSET names}

ExistingSpecs == {StdioSpec("npx", <<"-y", "a">>), SpecB, SpecH}

IncomingSpecs == {SpecA, SpecB, SpecH}

\* Host configs that hold the servers e1 (codex) and e2 (claude).
PlanConfigs ==
    {[codex |-> UpsertServers(TargetCodex, NoFile, e1),
      claude |-> UpsertServers(TargetClaude, NoFile, e2)] :
        e1 \in ServerSets({"s1", "s2"}, ExistingSpecs),
        e2 \in {EmptyMap, Put(EmptyMap, "s1", SpecB)}}

PlanTargetLists == {<<TargetCodex>>, <<TargetCodex, TargetClaude>>, <<TargetClaude, TargetCodex>>}

PlanIncoming == ServerSets({"s1", "s3"}, IncomingSpecs) \ {EmptyMap}

\* The orders in which the existing servers of each target may be yielded.
ListOrders(c) ==
    {[codex |-> oc, claude |-> ol] :
        oc \in Orders(DOMAIN ListServers(TargetCodex, c[TargetCodex])),
        ol \in Orders(DOMAIN ListServers(TargetClaude, c[TargetClaude]))}

PlanCall ==
    \E targets \in PlanTargetLists, c \in PlanConfigs, incoming \in PlanIncoming :
        \E orders \in ListOrders(c) :
            /\ rq = NoCall
            /\ rq' = [call |-> "plan", targets |-> targets, cfg |-> c, incoming |-> incoming,
                      plan |-> buildInstallPlan(targets, c, incoming, orders)]
            /\ UNCHANGED <<ledger, cfg, now, last>>

\* The configs after UpsertServers(incoming) on every target of the list.
AppliedTo(targets, c, incoming) ==
    [t \in Targets |-> IF t \in Range(targets) THEN UpsertServers(t, c[t], incoming) ELSE c[t]]

ReplanCall ==
    \E targets \in PlanTargetLists, c \in PlanConfigs, incoming \in PlanIncoming :
        \E orders \in ListOrders(AppliedTo(targets, c, incoming)) :
            /\ rq = NoCall
            /\ rq' = [call |-> "replan", targets |-> targets,
                      cfg |-> AppliedTo(targets, c, incoming), incoming |-> incoming,
                      plan |-> buildInstallPlan(targets, AppliedTo(targets, c, incoming),
                                                incoming, orders)]
            /\ UNCHANGED <<ledger, cfg, now, last>>

\* Server specs over a few values of every field.
AllSpecs ==
    {MCPServerSpec(tr, cmd, args, url, env) :
        tr \in {ServerTransportSTDIO, ServerTransportHTTP, "sse"}, cmd \in {"", "npx"},
        args \in {<<>>, <<"-y", "a">>}, url \in {"", "https://h"},
        env \in {<<>>, <<"TOKEN", "KEY">>}}

\* The specs validateManifest accepts.
ValidSpecs ==
    {sp \in AllSpecs : \/ (sp.Transport = ServerTransportSTDIO /\ TrimSpace(sp.Command) # "")
                        \/ (sp.Transport = ServerTransportHTTP /\ TrimSpace(sp.URL) # "")}

CanonicalKeyCall ==
    \E sp \in AllSpecs :
        /\ rq = NoCall
        /\ rq' = [call |-> "key", spec |-> sp, key |-> canonicalKey(sp)]
        /\ UNCHANGED <<ledger, cfg, now, last>>

Clients == {TargetCodex, TargetClaude} \cup GenericClients

\* The config file before the write: none, or one with a server of the
\* user's.
BaseFiles(client) == {NoFile, AdapterUpsert(client, NoFile, Put(EmptyMap, "s2", UserSpec))}

RoundTripCall ==
    \E client \in Clients, servers \in ServerSets({"s1", "s2"}, ValidSpecs) :
        \E f \in BaseFiles(client) :
            /\ rq = NoCall
            /\ rq' = [call |-> "roundtrip", client |-> client, servers |-> servers,
                      listed |-> AdapterList(client, AdapterUpsert(client, f, servers))]
            /\ UNCHANGED <<ledger, cfg, now, last>>

NextPlan ==
    \/ PlanCall
    \/ ReplanCall
    \/ CanonicalKeyCall
    \/ RoundTripCall

SpecPlan == Init /\ [][NextPlan]_vars

(***************************************************************************)
(* The generic adapter's writes on drawn documents: one call in a run of   *)
(* the process.                                                            *)
(***************************************************************************)
\* Numbers a settings document may hold: a small one, 2^53, 2^53 + 1,
\* 2^53 + 3.
FrameNumbers == {JSONNumber(0, 8080), JSONNumber(2^23, 0), JSONNumber(2^23, 1), JSONNumber(2^23, 3)}

\* The members of a document outside the servers section.
FrameSettings ==
    {Merge(t, b) : t \in {EmptyMap, Put(EmptyMap, "theme", "dark")},
                   b \in {EmptyMap} \cup {Put(EmptyMap, "build", n) : n \in FrameNumbers}}

\* The documents of a client: no file, or settings with or without a
\* servers section of entries in the client's format.
FrameFiles(client) ==
    {NoFile}
    \cup {File(d) : d \in FrameSettings}
    \cup {File(Put(d, serverKeys(client), [n \in DOMAIN sv |-> toConfig(client, sv[n])])) :
            d \in FrameSettings, sv \in ServerSets({"s1", "s2"}, {SpecB, SpecH})}

GenericUpsertCall ==
    \E client \in GenericClients, servers \in ServerSets({"s1", "s3"}, {SpecA, SpecH}) :
        \E f \in FrameFiles(client) :
            /\ rq = NoCall
            /\ rq' = [call |-> "upsert", client |-> client, before |-> f, servers |-> servers,
                      after |-> GenericUpsertServers(client, f, servers)]
            /\ UNCHANGED <<ledger, cfg, now, last>>

GenericRemoveCall ==
    \E client \in GenericClients, names \in {<<>>, <<"s1">>, <<"s3">>, <<"s2", "s1">>} :
        \E f \in FrameFiles(client) :
            /\ rq = NoCall
            /\ rq' = [call |-> "remove", client |-> client, before |-> f, names |-> names,
                      after |-> GenericRemoveServers(client, f, names)]
            /\ UNCHANGED <<ledger, cfg, now, last>>

NextFrame ==
    \/ GenericUpsertCall
    \/ GenericRemoveCall

SpecFrame == Init /\ [][NextFrame]_vars

(***************************************************************************)
(* The ledger store under Load, TapAdd and TapRemove.  The ledger file may *)
(* also come from elsewhere (an earlier version, an edit by hand) and lack *)
(* the default tap.                                                        *)
(***************************************************************************)
StoreTapAddRequests ==
    {TapAddRequest(n, RegistryURL) : n \in {"t2", "t3", DefaultTapName}} \cup {TapAddRequest("t2", "")}

StoreTapAddCalls ==
    (StoreTapAddRequests \X {NoFault}) \cup ({TapAddRequest("t2", RegistryURL)} \X StoreFaults)

\* Ledger files not written by this program: no default tap.
ForeignLedgers ==
    {State(EmptyMap, EmptyMap, EmptyMap),
     State(Put(EmptyMap, "t3", TapConfig("t3", RegistryURL, TrustModeHash, {})), EmptyMap, EmptyMap)}

Load ==
    \E fault \in StoreFaults :
        Return("Load", fault, LoadCall(ledger, cfg, fault))

TapAddStore ==
    \E call \in StoreTapAddCalls :
        Return("TapAdd", call[1], TapAddCall(ledger, cfg, call[1], call[2]))

ForeignLedger ==
    /\ last = Idle
    /\ ~ledger.exists
    /\ ledger' \in ForeignLedgers
    /\ UNCHANGED <<cfg, now, last, rq>>

NextStore ==
    \/ Load
    \/ TapAddStore
    \/ TapRemove
    \/ ForeignLedger
    \/ Exit

SpecStore == Init /\ [][NextStore]_vars

(***************************************************************************)
(* SyncTap and ResolveFromTap on drawn taps and repositories: one call in  *)
(* a run of the process.                                                   *)
(***************************************************************************)
SigstoreIdentity(issuer, subject) == [Issuer |-> issuer, Subject |-> subject]

VerifyIdentities ==
    {SigstoreIdentity("https://issuer", "release@a"), SigstoreIdentity("https://issuer", "release@b")}

\* Trust modes: unset, hash, cosign, and one the program does not know.
VerifyModes == {"", TrustModeHash, TrustModeCosign, "pgp"}

VerifyTaps ==
    {TapConfig("t2", RegistryURL, mode, ids) : mode \in VerifyModes, ids \in SUBSET VerifyIdentities}

\* Repositories holding pa 1.1.0 (not pinned), with every combination of
\* signature files, tool, accepted identities, and index and manifest that
\* decode or not.
VerifyRepos ==
    {[hasIndex |-> TRUE, Packages |-> FullIndex,
      files |-> [q \in DOMAIN TapFiles |-> [TapFiles[q] EXCEPT !.decodes = md]],
      signed |-> sg, cosign |-> tool, accepts |-> acc, decodes |-> id] :
        md \in BOOLEAN, sg \in BOOLEAN, tool \in BOOLEAN, id \in BOOLEAN,
        acc \in SUBSET VerifyIdentities}

VerifyCall ==
    \E tap \in VerifyTaps, repo \in VerifyRepos :
        /\ rq = NoCall
        /\ rq' = [call |-> "verify", tap |-> tap, repo |-> repo, sync |-> SyncTap(tap, repo),
                  out |-> ResolveFromRepo(tap, repo, "pa", "1.1.0")]
        /\ UNCHANGED <<ledger, cfg, now, last>>

NextVerify == VerifyCall

SpecVerify == Init /\ [][NextVerify]_vars

(***************************************************************************)
(* Doctor over two packages and two taps, on host configs the user may     *)
(* have edited since the install.                                          *)
(***************************************************************************)
DoctorInstallRequests ==
    {InstallRequest("pa", "1.0.0", "t2", "claude"), InstallRequest("pa", "1.1.0", "t2", TargetAll),
     InstallRequest("pd", "sound", "t3", "codex"), InstallRequest("pd", "sound", "t3", TargetAll)}

DoctorHosts ==
    {DoctorHost({"npx", "uvx"}, {"pa", "pd"} \X {"TOKEN", "KEY"}), DoctorHost({}, {})}

DoctorFaults ==
    {DoctorFault(FALSE, {}, {}), DoctorFault(TRUE, {}, {}), DoctorFault(FALSE, {}, Targets),
     DoctorFault(FALSE, {TargetCodex}, {TargetClaude})}
    \cup {DoctorFault(FALSE, {t}, {}) : t \in Targets}
    \cup {DoctorFault(FALSE, {}, {t}) : t \in Targets}

DoctorRequest(fix, host, hit) == [fix |-> fix, host |-> host, hit |-> hit]

InstallDoctor ==
    \E req \in DoctorInstallRequests :
        Return("InstallFromTap", req, InstallFromTapCall(ledger, cfg, req, NoFault, now))

InstallDoctorFromURL ==
    Return("InstallFromURL", InstallURLRequest(DirectURL, "claude", TRUE, FALSE, ""),
           InstallFromURLCall(ledger, cfg, InstallURLRequest(DirectURL, "claude", TRUE, FALSE, ""),
                              NoFault, now))

\* The user takes servers out of a host config.
ConfigEdited ==
    /\ last = Idle
    /\ \E t \in Targets, names \in {<<"s1">>, <<"s1", "s2">>} :
           /\ cfg' = [cfg EXCEPT ![t] = RemoveServers(t, cfg[t], names)]
           /\ cfg' # cfg
    /\ UNCHANGED <<ledger, now, last, rq>>

Doctor ==
    \E fix \in BOOLEAN, host \in DoctorHosts, hit \in DoctorFaults :
        \E order \in Orders(DOMAIN LoadedState(ledger).Installed) :
            Return("Doctor", DoctorRequest(fix, host, hit),
                   DoctorCall(ledger, cfg, fix, order, host, hit))

\* The program is run again right after a run with fix; its request
\* keeps what the first run was asked and what it reported.
DoctorAgainRequest(first, found, fix, hit) ==
    [first |-> first, found |-> found, fix |-> fix, hit |-> hit]

ReturnAgain(op, req, res) ==
    /\ ledger' = res.ledger
    /\ cfg' = res.cfg
    /\ last' = Last(op, res.err, req, res.out)
    /\ UNCHANGED <<now, rq>>

DoctorAgain ==
    /\ last.op = "Doctor"
    /\ last.err = ""
    /\ last.req.fix
    /\ \E fix \in BOOLEAN, hit \in {DoctorFault(FALSE, {}, {}), DoctorFault(TRUE, {}, {})} :
           \E order \in Orders(DOMAIN LoadedState(ledger).Installed) :
               ReturnAgain("DoctorAgain", DoctorAgainRequest(last.req, last.out, fix, hit),
                           DoctorCall(ledger, cfg, fix, order, last.req.host, hit))

NextDoctor ==
    \/ TapAddTwo
    \/ TapRemoveTwo
    \/ InstallDoctor
    \/ InstallDoctorFromURL
    \/ ConfigEdited
    \/ Doctor
    \/ DoctorAgain
    \/ Exit

SpecDoctor == Init /\ [][NextDoctor]_vars

(***************************************************************************)
(* The loop of applyInstall over the targets, on drawn target lists of a   *)
(* manager that knows three adapters, with drawn adapter failures.         *)
(***************************************************************************)
ApplyAdapters == {TargetCodex, TargetClaude, "cursor"}

ApplyTargetLists ==
    {<<a>> : a \in ApplyAdapters}
    \cup {l \in [1..2 -> ApplyAdapters] : l[1] # l[2]}
    \cup {l \in [1..3 -> ApplyAdapters] : Range(l) = ApplyAdapters}

ApplyConfigs ==
    {[t \in ApplyAdapters |-> NoFile],
     [t \in ApplyAdapters |-> AdapterUpsert(t, NoFile, Put(EmptyMap, "s2", UserSpec))]}

ApplyCall ==
    \E targets \in ApplyTargetLists, up \in SUBSET ApplyAdapters, rm \in SUBSET ApplyAdapters :
        \E manifest \in {ManifestPA10, ManifestPA11}, c \in ApplyConfigs :
            /\ rq = NoCall
            /\ rq' = [call |-> "apply", targets |-> targets, servers |-> manifest.MCPServers,
                      fault |-> Fault(FALSE, FALSE, up, rm), cfg |-> c,
                      run |-> ApplyLoop(targets, 1, c, <<>>, manifest.MCPServers,
                                        Fault(FALSE, FALSE, up, rm))]
            /\ UNCHANGED <<ledger, cfg, now, last>>

NextApply == ApplyCall

SpecApply == Init /\ [][NextApply]_vars

(***************************************************************************)
(* fsutil.AtomicWriteFile, one system call at a time, next to a reader of  *)
(* the target path and with a crash of the process at any point.  The file *)
(* system is the inode the target path names, the inode the temp path      *)
(* names (0: none) and the blocks each inode holds; the old file, if any,  *)
(* is inode 1 and the temp file is inode 2.                                *)
(***************************************************************************)
IsWrite == "call" \in DOMAIN rq /\ rq.call = "write"

FileSystem(target, tmp, inodes) == [target |-> target, tmp |-> tmp, inodes |-> inodes]

\* What a path that names no file reads as.
NotExist == <<"ENOENT">>

OldDocuments == {NotExist, <<"o1", "o2">>}

NewDocuments == {<<"n1">>, <<"n1", "n2">>}

FileSystemHolding(old) ==
    FileSystem(IF old = NotExist THEN 0 ELSE 1, 0, <<(IF old = NotExist THEN <<>> ELSE old), <<>>>>)

\* The content at the target path.
AtPath(fs) == IF fs.target = 0 THEN NotExist ELSE fs.inodes[fs.target]

\* A write that opens the target itself and truncates it (told apart by
\* C31).
OpenTruncate(fs) ==
    FileSystem(1, 1, [fs.inodes EXCEPT ![1] = <<>>])

\* os.CreateTemp(dir, ".tmp-*-"): a new empty file next to the target.
CreateTemp(fs) ==
    FileSystem(fs.target, 2, [fs.inodes EXCEPT ![2] = <<>>])

\* tmp.Write(data), as far as the kernel got: one more block of data.
WriteBlock(fs, data) ==
    [fs EXCEPT !.inodes[fs.tmp] = Append(@, data[Len(@) + 1])]

\* os.Rename(tmpName, path)
Rename(fs) == FileSystem(fs.tmp, 0, fs.inodes)

\* defer os.Remove(tmpName): its error is dropped.
RemoveTemp(fs) == [fs EXCEPT !.tmp = 0]

NoReader == [state |-> "none", fd |-> 0, got |-> <<>>]

WriteState(pc, fs, old, data, rd) ==
    [call |-> "write", pc |-> pc, fs |-> fs, old |-> old, data |-> data, rd |-> rd]

Writing(pcs) == IsWrite /\ rq.pc \in pcs

WriteSteps(rq1) ==
    /\ rq' = rq1
    /\ UNCHANGED <<ledger, cfg, now, last>>

AtomicWriteBegin ==
    /\ rq = NoCall
    /\ \E old \in OldDocuments, data \in NewDocuments :
           WriteSteps(WriteState("start", FileSystemHolding(old), old, data, NoReader))

MkdirAll ==
    /\ Writing({"start"})
    /\ \E pc \in {"dir", "failed"} : WriteSteps([rq EXCEPT !.pc = pc])

CreateTempFile ==
    /\ Writing({"dir"})
    /\ \/ WriteSteps([rq EXCEPT !.pc = "temp", !.fs = CreateTemp(rq.fs)])
       \/ WriteSteps([rq EXCEPT !.pc = "failed"])

WriteTemp ==
    /\ Writing({"temp"})
    /\ Len(rq.fs.inodes[rq.fs.tmp]) < Len(rq.data)
    /\ WriteSteps([rq EXCEPT !.fs = WriteBlock(rq.fs, rq.data)])

WriteTempReturns ==
    /\ Writing({"temp"})
    /\ Len(rq.fs.inodes[rq.fs.tmp]) = Len(rq.data)
    /\ WriteSteps([rq EXCEPT !.pc = "written"])

ChmodTemp ==
    /\ Writing({"written"})
    /\ WriteSteps([rq EXCEPT !.pc = "chmodded"])

CloseTemp ==
    /\ Writing({"chmodded"})
    /\ WriteSteps([rq EXCEPT !.pc = "closed"])

RenameTemp ==
    /\ Writing({"closed"})
    /\ WriteSteps([rq EXCEPT !.pc = "renamed", !.fs = Rename(rq.fs)])

\* A step after CreateTemp returns an error: the deferred Remove runs.
WriteStepFails ==
    /\ Writing({"temp", "written", "chmodded", "closed"})
    /\ WriteSteps([rq EXCEPT !.pc = "failed", !.fs = RemoveTemp(rq.fs)])

AtomicWriteReturns ==
    /\ Writing({"renamed"})
    /\ WriteSteps([rq EXCEPT !.pc = "done", !.fs = RemoveTemp(rq.fs)])

\* The process dies: nothing deferred runs, the files stay as they are.
Crash ==
    /\ Writing({"start", "dir", "temp", "written", "chmodded", "closed", "renamed"})
    /\ WriteSteps([rq EXCEPT !.pc = "crashed"])

\* Another process opens the target path ...
ReaderOpens ==
    /\ IsWrite
    /\ rq.rd.state = "none"
    /\ WriteSteps([rq EXCEPT !.rd = IF rq.fs.target = 0
                                     THEN [state |-> "done", fd |-> 0, got |-> NotExist]
                                     ELSE [state |-> "open", fd |-> rq.fs.target, got |-> <<>>]])

\* ... and reads it block by block to the end of the file.
ReaderReads ==
    /\ IsWrite
    /\ rq.rd.state = "open"
    /\ IF Len(rq.rd.got) < Len(rq.fs.inodes[rq.rd.fd])
       THEN WriteSteps([rq EXCEPT !.rd.got = Append(@, rq.fs.inodes[rq.rd.fd][Len(@) + 1])])
       ELSE WriteSteps([rq EXCEPT !.rd.state = "done"])

NextWrite ==
    \/ AtomicWriteBegin
    \/ MkdirAll
    \/ CreateTempFile
    \/ WriteTemp
    \/ WriteTempReturns
    \/ ChmodTemp
    \/ CloseTemp
    \/ RenameTemp
    \/ WriteStepFails
    \/ AtomicWriteReturns
    \/ Crash
    \/ ReaderOpens
    \/ ReaderReads

SpecWrite == Init /\ [][NextWrite]_vars

(***************************************************************************)
(* ClaudeAdapter writes to one settings file, each behind                  *)
(* fsutil.BackupFile, on drawn documents that hold the canonical key, the  *)
(* legacy key, both or neither, while the seconds of the clock pass.       *)
(***************************************************************************)
MaxSecond == 2

MaxWrites == 2

\* No backup was written under a timestamp.
NoBackup == <<>>

\* fsutil.BackupFile: nothing when the file does not exist; else the
\* file's content is copied to the path of the clock's second, which
\* os.Create truncates if it is there.
BackupFile(f, backups, sec) ==
    IF ~f.exists THEN backups ELSE [backups EXCEPT ![sec] = <<f>>]

ClaudeSections ==
    {Put(EmptyMap, "s2", serverSpecToConfig(UserSpec)),
     Put(EmptyMap, "s3", serverSpecToConfig(SpecH)),
     Put(Put(EmptyMap, "s1", serverSpecToConfig(UserSpec)), "s3", serverSpecToConfig(SpecH))}

ClaudeSettings == Put(EmptyMap, "theme", "dark")

ClaudeDocuments ==
    {NoFile, File(ClaudeSettings)}
    \cup {File(Put(ClaudeSettings, "mcpServers", c)) : c \in ClaudeSections}
    \cup {File(Put(ClaudeSettings, "mcp_servers", l)) : l \in ClaudeSections}
    \cup {File(Put(Put(ClaudeSettings, "mcpServers", c), "mcp_servers", l)) :
            c \in ClaudeSections, l \in ClaudeSections}

IsClaude == "call" \in DOMAIN rq /\ rq.call = "claude"

\* The settings file, the backups by second, the clock, the number of
\* calls made, and of the last call: what it was, the file it found and the
\* names it was to remove.
ClaudeState(file, backups, sec, n, op, prev, names) ==
    [call |-> "claude", file |-> file, backups |-> backups, sec |-> sec, n |-> n,
     op |-> op, prev |-> prev, names |-> names]

ClaudeStep(rq1) ==
    /\ rq' = rq1
    /\ UNCHANGED <<ledger, cfg, now, last>>

ClaudeBegin ==
    /\ rq = NoCall
    /\ \E f \in ClaudeDocuments :
           ClaudeStep(ClaudeState(f, [ts \in 1..MaxSecond |-> NoBackup], 1, 0, "", f, <<>>))

\* ClaudeAdapter.UpsertServers: readRaw, merge, writeRaw (backup, write).
ClaudeUpsert ==
    /\ IsClaude
    /\ rq.n < MaxWrites
    /\ \E manifest \in {ManifestPA10, ManifestPA11} :
           ClaudeStep(ClaudeState(ClaudeUpsertServers(rq.file, manifest.MCPServers),
                                  BackupFile(rq.file, rq.backups, rq.sec), rq.sec, rq.n + 1,
                                  "upsert", rq.file, <<>>))

\* ClaudeAdapter.RemoveServers: it returns before writeRaw when it finds no
\* server.
ClaudeRemove ==
    /\ IsClaude
    /\ rq.n < MaxWrites
    /\ \E names \in {<<"s1">>, <<"s1", "s2">>} :
           IF DOMAIN claudeMCPServers(rq.file.raw) = {}
           THEN ClaudeStep(ClaudeState(rq.file, rq.backups, rq.sec, rq.n + 1, "none", rq.file, names))
           ELSE ClaudeStep(ClaudeState(ClaudeRemoveServers(rq.file, names),
                                       BackupFile(rq.file, rq.backups, rq.sec), rq.sec, rq.n + 1,
                                       "remove", rq.file, names))

SecondPasses ==
    /\ IsClaude
    /\ rq.sec < MaxSecond
    /\ ClaudeStep([rq EXCEPT !.sec = rq.sec + 1])

NextClaude ==
    \/ ClaudeBegin
    \/ ClaudeUpsert
    \/ ClaudeRemove
    \/ SecondPasses

SpecClaude == Init /\ [][NextClaude]_vars

(***************************************************************************)
(* The external calls of the registry client (git pull, git clone, cosign  *)
(* verify-blob, the HTTP fetch of a manifest) while the caller's context   *)
(* may be cancelled.  An operation is SyncTap of a remote tap (pull if the *)
(* cache is there, clone if it is not or the pull failed, then one cosign  *)
(* run per trusted identity in cosign mode) or ResolveFromURL of an http   *)
(* URL.                                                                    *)
(***************************************************************************)
\* The context an external call runs under: the caller's for
\* exec.CommandContext(ctx, ...), context.Background() with a timeout of
\* its own for the HTTP request.
UnderCallerContext(ext) == ext \in {"pull", "clone", "cosign"}

IsCancel == "call" \in DOMAIN rq /\ rq.call = "cancel"

\* The operation, the external call in flight ("" once it has returned),
\* whether the context is cancelled and which call was in flight then, the
\* identities cosign has yet to try, the error returned, the calls that
\* ended on their own or on their own timeout after the cancellation, and
\* how each call made so far ended.
CancelState(op, ext, cancelled, during, ids, cosign, err, late) ==
    [call |-> "cancel", op |-> op, ext |-> ext, cancelled |-> cancelled, during |-> during,
     ids |-> ids, cosign |-> cosign, err |-> err, late |-> late, ended |-> <<>>]

Ended(st, how) == [st EXCEPT !.ended = Append(st.ended, <<st.ext, how>>)]

CancelStep(rq1) ==
    /\ rq' = rq1
    /\ UNCHANGED <<ledger, cfg, now, last>>

SyncTapBegins ==
    /\ rq = NoCall
    /\ \E cached \in BOOLEAN, cosign \in BOOLEAN, ids \in 1..2 :
           CancelStep(CancelState("SyncTap", IF cached THEN "pull" ELSE "clone", FALSE, "",
                                  IF cosign THEN ids ELSE 0, cosign, "", {}))

ResolveFromURLBegins ==
    /\ rq = NoCall
    /\ CancelStep(CancelState("ResolveFromURL", "http", FALSE, "", 0, FALSE, "", {}))

\* The caller cancels the context while a call is in flight.
ContextCancelled ==
    /\ IsCancel
    /\ rq.ext # ""
    /\ ~rq.cancelled
    /\ CancelStep([rq EXCEPT !.cancelled = TRUE, !.during = rq.ext])

\* What the operation does once the call in flight has ended with ok or
\* not: the next call, or the return.
AfterExternal(st, ok) ==
    CASE st.ext = "pull" /\ ~ok -> [st EXCEPT !.ext = "clone"]
      [] st.ext \in {"pull", "clone"} /\ ok ->
            IF st.cosign THEN [st EXCEPT !.ext = "cosign"] ELSE [st EXCEPT !.ext = "", !.err = ""]
      [] st.ext = "clone" /\ ~ok -> [st EXCEPT !.ext = "", !.err = "clone"]
      [] st.ext = "cosign" /\ ok -> [st EXCEPT !.ext = "", !.err = ""]
      [] st.ext = "cosign" /\ ~ok ->
            IF st.ids > 1 THEN [st EXCEPT !.ids = st.ids - 1]
            ELSE [st EXCEPT !.ext = "", !.err = "no_trusted_identity", !.ids = 0]
      [] st.ext = "http" /\ ok -> [st EXCEPT !.ext = "", !.err = ""]
      [] OTHER -> [st EXCEPT !.ext = "", !.err = "fetch"]

Late(st) == IF st.cancelled THEN [st EXCEPT !.late = st.late \cup {st.ext}] ELSE st

\* The call in flight ends on its own.  A command under the caller's
\* context does so only while the context is not cancelled.
ExternalEnds ==
    /\ IsCancel
    /\ rq.ext # ""
    /\ UnderCallerContext(rq.ext) => ~rq.cancelled
    /\ \E ok \in BOOLEAN :
           CancelStep(AfterExternal(Ended(Late(rq), IF ok THEN "ok" ELSE "failed"), ok))

\* The command in flight is killed, or not started, because the caller's
\* context is cancelled.
ExternalKilled ==
    /\ IsCancel
    /\ rq.ext # ""
    /\ UnderCallerContext(rq.ext)
    /\ rq.cancelled
    /\ CancelStep(AfterExternal(Ended(rq, "killed"), FALSE))

\* The HTTP request reaches its own timeout of 30 seconds.
FetchTimesOut ==
    /\ IsCancel
    /\ rq.ext = "http"
    /\ CancelStep(AfterExternal(Ended(Late(rq), "timeout"), FALSE))

NextCancel ==
    \/ SyncTapBegins
    \/ ResolveFromURLBegins
    \/ ContextCancelled
    \/ ExternalEnds
    \/ ExternalKilled
    \/ FetchTimesOut

SpecCancel == Init /\ [][NextCancel]_vars

(***************************************************************************)
(* runSetupCommands on drawn setup commands, stored secrets and typed      *)
(* lines.                                                                  *)
(***************************************************************************)
MaxLines == 4

SetupLines == {"yes\n", " YES\n", "skip\n", "edit\n", "new\n", "\n"}

SetupInputs == UNION {[1..n -> SetupLines] : n \in 0..MaxLines}

SetupCommandSets ==
    {EmptyMap}
    \cup {Put(EmptyMap, "TOKEN", HostedCommand(SetupCommand(<<"gen">>, "k.*"), d, "v1")) :
            d \in {"ok", "failed", "notfound", "nomatch"}}
    \cup {Put(Put(EmptyMap, "TOKEN", HostedCommand(SetupCommand(<<"gen">>, ""), "ok", "v1")),
               "KEY", HostedCommand(SetupCommand(<<"gen">>, "k.*"), d, "v2")) :
            d \in {"ok", "failed"}}

StoredSecrets ==
    {EmptyMap, Put(EmptyMap, "KEY", "old"), Put(EmptyMap, "TOKEN", "old")}

RunSetupCall ==
    /\ rq = NoCall
    /\ \E cmds \in SetupCommandSets, sec \in StoredSecrets, in \in SetupInputs :
        \E interactive \in BOOLEAN, tail \in {"eof", "err"}, setFails \in BOOLEAN :
            /\ rq' = [call |-> "setup", cmds |-> cmds, interactive |-> interactive,
                      secrets |-> sec, stdin |-> in, tail |-> tail, setFails |-> setFails,
                      run |-> runSetupCommands(cmds, interactive, sec, in, tail, setFails)]
            /\ UNCHANGED <<ledger, cfg, now, last>>

NextSetup == RunSetupCall

SpecSetup == Init /\ [][NextSetup]_vars

(***************************************************************************)
(* canonicalKey on pairs of specs whose commands and arguments hold        *)
(* spaces, and buildInstallPlan on an incoming server that meets an        *)
(* existing server of its name: one call in a run of the process.          *)
(***************************************************************************)
\* Stdio specs whose command and arguments split one command line at
\* different places, and two http specs.
KeySpecs ==
    {MCPServerSpec(ServerTransportSTDIO, cmd, args, "", env) :
        cmd \in {"npx", "npx -y"}, args \in {<<>>, <<"a">>, <<"-y", "a">>, <<"-y a">>},
        env \in {<<>>, <<"KEY">>}}
    \cup {SpecH, SpecU}

\* The host configs in which target t holds server s1 with spec sp.
HoldingOn(t, sp) ==
    [u \in Targets |-> IF u = t THEN UpsertServers(u, NoFile, Put(EmptyMap, "s1", sp)) ELSE NoFile]

CanonicalKeysCall ==
    /\ rq = NoCall
    /\ \E a \in KeySpecs, b \in KeySpecs :
           rq' = [call |-> "keys", a |-> a, b |-> b,
                  keyA |-> canonicalKey(a), keyB |-> canonicalKey(b)]
    /\ UNCHANGED <<ledger, cfg, now, last>>

CollisionPlanCall ==
    /\ rq = NoCall
    /\ \E t \in Targets, a \in KeySpecs, b \in KeySpecs :
           \E orders \in ListOrders(HoldingOn(t, a)) :
               rq' = [call |-> "collide", targets |-> <<t>>, cfg |-> HoldingOn(t, a),
                      incoming |-> Put(EmptyMap, "s1", b),
                      plan |-> buildInstallPlan(<<t>>, HoldingOn(t, a), Put(EmptyMap, "s1", b),
                                                orders)]
    /\ UNCHANGED <<ledger, cfg, now, last>>

NextKeys ==
    \/ CanonicalKeysCall
    \/ CollisionPlanCall

SpecKeys == Init /\ [][NextKeys]_vars

(***************************************************************************)
(* resolveVersion on drawn inputs: every catalog of at most MaxCatalog     *)
(* version strings and every version expression of VersionExprs.           *)
(***************************************************************************)
\* Version expressions: the empty one, ranges with operator characters, the
\* wildcard range, and tokens without operator characters.
VersionExprs ==
    {"", ">=1.0.0, <2.0.0", ">=2.1.0-rc, <3.0.0", "<1.0.0", ">=2.0.0", "*", "1.0.0", "nightly"}

CatalogPackage(S) == [Description |-> "pa", Versions |-> [v \in S |-> IndexVersion(v, "")]]

ResolveVersionCall ==
    \E S \in Catalogs, expr \in VersionExprs :
        /\ rq' = [catalog |-> S, expr |-> expr, out |-> resolveVersion(CatalogPackage(S), expr)]
        /\ UNCHANGED <<ledger, cfg, now, last>>

NextVersion == ResolveVersionCall

SpecVersion == Init /\ [][NextVersion]_vars

(***************************************************************************)
(* Properties.                                                             *)
(***************************************************************************)
InstallOps == {"InstallFromTap", "InstallFromURL"}

\* C1: when an install fails in UpsertServers on the k-th target, each of
\* the targets 1..k-1 written before lists, once the call has returned,
\* exactly the servers (names and specs) it listed before the call,
\* whatever it held then.
C1_RollbackRestores ==
    [][(last'.op \in InstallOps /\ last'.err = "apply")
          => \A i \in DOMAIN last'.out.applied :
                ListServers(last'.out.applied[i], cfg'[last'.out.applied[i]])
                    = ListServers(last'.out.applied[i], cfg[last'.out.applied[i]])]_vars

LedgerOps == {"InstallFromTap", "InstallFromURL", "Remove", "Upgrade", "TapAdd", "TapRemove"}

\* C2 as stated: a ledger-writing operation that returns an error leaves
\* the persisted ledger identical to the one before the call.
C2_LedgerIdentical ==
    [][(last'.op \in LedgerOps /\ last'.err # "") => ledger' = ledger]_vars

\* C2: a ledger-writing operation (InstallFromTap, InstallFromURL, Remove,
\* Upgrade, TapAdd, TapRemove) that returns an error leaves the persisted
\* ledger as it was, except that a ledger file that did not exist may have
\* been created holding the default state; no installed-package entry is
\* added or updated, in particular not by a partial-apply failure.
C2_FailureKeepsLedger ==
    [][(last'.op \in LedgerOps /\ last'.err # "")
          => \/ ledger' = ledger
             \/ ~ledger.exists /\ ledger' = NewDefaultState]_vars

\* An install failed on its second target, with an existing ledger.
C2_Witness ==
    /\ last.op \in InstallOps
    /\ last.err = "apply"
    /\ Len(last.out.applied) = 1
    /\ ledger.exists
    /\ "pa" \notin DOMAIN ledger.Installed

\* The URL of the call that returned has no approved decision in the ledger
\* the call loaded.
Unapproved == ~Approved(LoadedState(ledger), last'.req.URL)

\* C3 as stated: InstallFromURL for an unapproved URL, without the yes
\* flag, and either not on a terminal or with an answer other than "yes",
\* fails without fetching or applying: no host config written, no entry.
C3_AnswerOtherThanYes ==
    [][(/\ last'.op = "InstallFromURL"
        /\ Unapproved
        /\ ~last'.req.Yes
        /\ ~last'.req.tty \/ last'.req.answer \notin {"yes", "yes\n"})
          => /\ last'.err # ""
             /\ ~last'.out.fetched
             /\ cfg' = cfg
             /\ ledger'.Installed = ledger.Installed]_vars

\* C3: InstallFromURL for an unapproved URL, without the yes flag, and
\* either not on a terminal or with an answer that is not "yes" once
\* trimmed of white space and compared ignoring case, fails without
\* fetching or applying the manifest: no host config is written, no
\* installed-package entry and no trust decision is recorded.
C3_UntrustedRefused ==
    [][(/\ last'.op = "InstallFromURL"
        /\ Unapproved
        /\ ~last'.req.Yes
        /\ ~last'.req.tty \/ ToLower(TrimSpace(last'.req.answer)) # "yes")
          => /\ last'.err # ""
             /\ ~last'.out.fetched
             /\ cfg' = cfg
             /\ ledger'.Installed = ledger.Installed
             /\ ledger'.TrustedDirectSources = ledger.TrustedDirectSources]_vars

\* A prompt on a terminal was answered "no" and the install refused.
C3_Witness ==
    /\ last.op = "InstallFromURL"
    /\ last.req.tty /\ ~last.req.Yes /\ last.req.answer = "no\n"
    /\ last.err = "not_trusted"
    /\ DirectURL \notin DOMAIN ledger.TrustedDirectSources

\* The index pins a digest and the manifest file's digest differs from it,
\* compared ignoring case.
PinMismatch(sel) == sel.pin # "" /\ ToLower(sel.digest) # ToLower(sel.pin)

\* The index entry and file the upgrade of pa selects, if the call gets to
\* resolving it.
UpgradeSelected(st, req) ==
    IF /\ req.Name \in {"", "pa"}
       /\ "pa" \in DOMAIN st.Installed
       /\ st.Installed["pa"].Source.Type = SourceTypeTap
       /\ st.Installed["pa"].Source.Tap \in DOMAIN st.Taps
       /\ req.AllowMajor \/ NewVersion(st.Installed["pa"].Version).ok
    THEN SelectedFromTap(st.Taps[st.Installed["pa"].Source.Tap], "pa",
                         UpgradeExpr(st.Installed["pa"].Version, req.AllowMajor))
    ELSE NoSelected

\* C4: when the index pins a SHA-256 for the selected version and the
\* manifest file's digest differs from it (ignoring case), the install or
\* upgrade that selected it fails and writes no host config and no ledger
\* entry; the comparison is made whenever a pin is present.
C4_PinEnforced ==
    [][/\ (last'.op = "InstallFromTap" /\ PinMismatch(last'.out.sel))
            => last'.err # "" /\ cfg' = cfg /\ ledger'.Installed = ledger.Installed
       /\ (last'.op = "Upgrade" /\ PinMismatch(UpgradeSelected(LoadedState(ledger), last'.req)))
            => last'.err # "" /\ cfg' = cfg /\ ledger'.Installed = ledger.Installed]_vars

\* An install selected the version whose pin does not match and failed.
C4_Witness ==
    /\ last.op = "InstallFromTap"
    /\ PinMismatch(last.out.sel)
    /\ last.err = "hash_mismatch"

\* Target t lists every server of the manifest with a canonically equal spec.
ListsAll(t, c, servers) ==
    \A n \in DOMAIN servers :
        /\ n \in DOMAIN ListServers(t, c[t])
        /\ specsEqual(ListServers(t, c[t])[n], servers[n])

\* The manifest an install request resolves to, read from the registry or
\* the direct URL.
RequestedManifest ==
    IF last.op = "InstallFromTap"
    THEN (Materialize(RegistryURL).files)[FullVersions[last.out.sel.version].ManifestPath].manifest
    ELSE ReadURLOrFile(last.req.URL).file.manifest

\* C5: after InstallFromTap or InstallFromURL returns successfully, every
\* target of the expanded target list lists every server name of the
\* resolved manifest with a spec canonically equal to the manifest's.
C5_InstalledServersListed ==
    (last.op \in InstallOps /\ last.err = "")
        => \A i \in DOMAIN resolveTargets(last.req.Target).targets :
              ListsAll(resolveTargets(last.req.Target).targets[i], cfg, RequestedManifest.MCPServers)

\* An install of a manifest with an http server succeeded on two targets.
C5_Witness ==
    /\ last.op \in InstallOps
    /\ last.err = ""
    /\ Len(last.out.targets) = 2
    /\ \E n \in DOMAIN RequestedManifest.MCPServers :
          RequestedManifest.MCPServers[n].Transport = ServerTransportHTTP

\* The source an install request names.
RequestedSource ==
    IF last.op = "InstallFromTap"
    THEN SourceRef(SourceTypeTap, IF last.req.Tap = "" THEN DefaultTapName ELSE last.req.Tap, "")
    ELSE SourceRef(SourceTypeDirect, "", last.req.URL)

\* The digest of the manifest file an install request resolves to.
RequestedDigest ==
    IF last.op = "InstallFromTap"
    THEN (Materialize(RegistryURL).files)[FullVersions[last.out.sel.version].ManifestPath].digest
    ELSE ReadURLOrFile(last.req.URL).file.digest

\* C6: after a successful install the ledger entry of the package records
\* the resolved version, the source it was installed from, the digest of
\* the manifest, exactly the server names of the manifest and exactly the
\* list of targets the servers were applied to.
C6_EntryRecordsInstall ==
    (last.op \in InstallOps /\ last.err = "")
        => /\ RequestedManifest.Name \in DOMAIN ledger.Installed
           /\ LET e == ledger.Installed[RequestedManifest.Name]
              IN  /\ e.Version = (IF last.op = "InstallFromTap" THEN last.out.sel.version
                                  ELSE RequestedManifest.Version)
                  /\ e.Source = RequestedSource
                  /\ e.ManifestDigest = RequestedDigest
                  /\ Range(e.Servers) = DOMAIN RequestedManifest.MCPServers
                  /\ Len(e.Servers) = Cardinality(DOMAIN RequestedManifest.MCPServers)
                  /\ e.Targets = resolveTargets(last.req.Target).targets
                  /\ \A i \in DOMAIN e.Targets :
                        ListsAll(e.Targets[i], cfg, RequestedManifest.MCPServers)

\* An install to the single target claude succeeded.
C6_Witness ==
    /\ last.op = "InstallFromTap"
    /\ last.err = ""
    /\ last.req.Target = "claude"
    /\ ledger.Installed["pa"].Targets = <<TargetClaude>>

\* C7 as stated: Remove(name) fails without any change when name is not in
\* the ledger.
C7_MissingNoChange ==
    [][(last'.op = "Remove" /\ last'.req \notin DOMAIN LoadedState(ledger).Installed)
          => last'.err # "" /\ ledger' = ledger /\ cfg' = cfg]_vars

\* C7: Remove(name) fails when name is not in the ledger, changing no host
\* config and no ledger content (a ledger file that did not exist may have
\* been created holding the default state); when it succeeds, the ledger
\* has no entry for name and no target recorded in the removed entry lists
\* any of the entry's recorded server names.
C7_Remove ==
    [][last'.op = "Remove"
          => /\ last'.req \notin DOMAIN LoadedState(ledger).Installed
                  => /\ last'.err # ""
                     /\ cfg' = cfg
                     /\ ledger' = ledger \/ (~ledger.exists /\ ledger' = NewDefaultState)
             /\ last'.err = ""
                  => /\ last'.req \in DOMAIN ledger.Installed
                     /\ last'.req \notin DOMAIN ledger'.Installed
                     /\ \A i \in DOMAIN ledger.Installed[last'.req].Targets :
                           \A j \in DOMAIN ledger.Installed[last'.req].Servers :
                               ledger.Installed[last'.req].Servers[j] \notin
                                   DOMAIN ListServers(ledger.Installed[last'.req].Targets[i],
                                                      cfg'[ledger.Installed[last'.req].Targets[i]])]_vars

\* A package applied to two targets was removed.
C7_Witness ==
    /\ last.op = "Remove"
    /\ last.err = ""
    /\ last.req = "pa"
    /\ Len(last.out.Targets) = 2
    /\ "pa" \notin DOMAIN ledger.Installed

\* The versions a catalog's released, parseable entries.
Releases(S) == {v \in S : NewVersion(v).ok /\ NewVersion(v).Prerelease = ""}

\* The parseable versions of S strictly greater than current.
Newer(S, current) ==
    {v \in S : NewVersion(v).ok /\ Compare(NewVersion(v), NewVersion(current)) = 1}

NothingNewer(st) ==
    /\ last'.op = "Upgrade"
    /\ last'.req.Name \in {"", "pa"}
    /\ last'.err \notin {"load", "save"}
    /\ "pa" \in DOMAIN st.Installed
    /\ st.Installed["pa"].Source.Type = SourceTypeTap
    /\ st.Installed["pa"].Source.Tap \in DOMAIN st.Taps
    /\ NewVersion(st.Installed["pa"].Version).ok
    /\ \A v \in Newer(DOMAIN FullVersions, st.Installed["pa"].Version) :
          ~last'.req.AllowMajor
              /\ NewVersion(v).Major > NewVersion(st.Installed["pa"].Version).Major

\* The installed version is a release the catalog lists, and its manifest
\* file has the pinned digest, if the index pins one.
CurrentListed(st) ==
    /\ st.Installed["pa"].Version \in Releases(DOMAIN FullVersions)
    /\ ~PinMismatch(SelectedFromTap(st.Taps[st.Installed["pa"].Source.Tap], "pa",
                                    st.Installed["pa"].Version))

UnchangedReport(st) ==
    <<UpgradeResult("pa", st.Installed["pa"].Version, st.Installed["pa"].Version, FALSE)>>

UpgradeOf(st, old, req) ==
    ResolveUpgrade(st.Taps[old.Source.Tap], old.Name, old.Version, req.AllowMajor).resolved

\* The postcondition of C10 for one upgraded package: old and new are its
\* entries before and after, resolved is what ResolveUpgrade returned.
UpgradedInPlace(old, new, resolved) ==
    /\ Compare(NewVersion(new.Version), NewVersion(old.Version)) = 1
    /\ new.Version = resolved.Manifest.Version
    /\ new.Description = resolved.Manifest.Description
    /\ new.ManifestDigest = resolved.ManifestDigest
    /\ Range(new.Servers) = DOMAIN resolved.Manifest.MCPServers
    /\ new.UpdatedAt = now
    /\ new.Name = old.Name
    /\ new.Targets = old.Targets
    /\ new.Source = old.Source
    /\ new.InstalledAt = old.InstalledAt
    /\ \A t \in Range(old.Targets) : ListsAll(t, cfg', resolved.Manifest.MCPServers)
    /\ \A t \in Targets \ Range(old.Targets) : cfg'[t] = cfg[t]

\* C10: a successful upgrade of a package updates its ledger entry in
\* place: the version becomes strictly greater; version, description,
\* digest, server list and update time are those of the new manifest and
\* of the call; targets, source and install time are unchanged; the new
\* manifest's servers are applied to exactly the recorded targets.
C10_UpgradeInPlace ==
    [][(last'.op = "Upgrade" /\ last'.err = "")
          => \A i \in DOMAIN last'.out :
                last'.out[i].WasUpgraded
                    => /\ last'.out[i].OldVersion = ledger.Installed[last'.out[i].Name].Version
                       /\ last'.out[i].NewVersion = ledger'.Installed[last'.out[i].Name].Version
                       /\ UpgradedInPlace(ledger.Installed[last'.out[i].Name],
                                           ledger'.Installed[last'.out[i].Name],
                                           UpgradeOf(LoadedState(ledger),
                                                     ledger.Installed[last'.out[i].Name],
                                                     last'.req))]_vars

\* A package applied to claude alone was upgraded later than installed.
C10_Witness ==
    /\ last.op = "Upgrade"
    /\ last.err = ""
    /\ Len(last.out) = 1
    /\ last.out[1].WasUpgraded
    /\ ledger.Installed["pa"].Targets = <<TargetClaude>>
    /\ ledger.Installed["pa"].InstalledAt < ledger.Installed["pa"].UpdatedAt

\* The call recorded in rq is a resolveVersion call.
IsVersionCall == "expr" \in DOMAIN rq

\* Whether the parsed version v satisfies the range that expr denotes in
\* semver: the empty expression and "*" stand for >=0.0.0, a bare version
\* for equality with it.
Satisfies(expr, v) ==
    IF expr \in {"", "*"} THEN Check(<<Comparator(">=", "0.0.0")>>, v)
    ELSE IF expr \in DOMAIN ConstraintTable THEN Check(ConstraintTable[expr], v)
    ELSE NewVersion(expr).ok /\ Compare(v, NewVersion(expr)) = 0

\* The catalog versions that parse as semver and satisfy expr.
Satisfying(S, expr) == {v \in S : NewVersion(v).ok /\ Satisfies(expr, NewVersion(v))}

\* The expressions that are semver ranges.
RangeExprs == {e \in VersionExprs : e \in {"", "*"} \/ e \in DOMAIN ConstraintTable \/ NewVersion(e).ok}

\* The result is the greatest of the versions in sat.
IsMaximum(out, sat) ==
    /\ out.err = ""
    /\ out.version \in sat
    /\ \A w \in sat : Compare(NewVersion(out.version), NewVersion(w)) >= 0

RequestedDefect ==
    IF last'.op = "InstallFromTap" THEN last'.req.Version
    ELSE CHOOSE d \in Defects : DefectURL(d) = last'.req.URL

\* C12: validateManifest rejects a manifest with any one of these defects
\* alone: empty name, empty version, zero servers, a server with an empty
\* name, a stdio server with empty command, an http server with empty
\* url, an unknown transport, a setup command with an empty run vector or
\* a pattern that does not compile; an install from a tap or from a direct
\* URL that reads such a manifest fails in validation, writes no host
\* config and records nothing in the ledger.
C12_InvalidNeverApplied ==
    [][/\ \A d \in Defects \ {"sound"} : ~validateManifest(DefectManifest(d))
       /\ (/\ last'.op \in InstallOps
           /\ last'.out.fetched
           /\ RequestedDefect # "sound")
            => /\ last'.err = "validation"
               /\ cfg' = cfg
               /\ ledger'.Installed = ledger.Installed
               /\ ledger'.TrustedDirectSources = ledger.TrustedDirectSources]_vars

\* An install from the tap read the manifest whose http server has no url
\* and failed in validation; nothing is installed.
C12_Witness ==
    /\ last.op = "InstallFromTap"
    /\ last.req.Version = "url"
    /\ last.out.fetched
    /\ last.err = "validation"
    /\ ledger.Installed = EmptyMap

\* The errors of a not-found condition: unknown package, no matching
\* version, tap not configured, unknown target name.
NotFoundErrors ==
    {"not_installed", "package_not_found", "version_not_found", "no_version_satisfies",
     "no_versions", "tap_not_found", "tap_not_configured", "unknown_target"}

\* C13: when an install, remove or upgrade (of one package or of all)
\* fails with a not-found condition, no host config differs from before
\* the call and no ledger content does (a ledger file that did not exist
\* may have been created holding the default state).
C13_NotFoundNoSideEffects ==
    [][(/\ last'.op \in {"InstallFromTap", "InstallFromURL", "Remove", "Upgrade"}
        /\ last'.err \in NotFoundErrors)
          => /\ cfg' = cfg
             /\ ledger' = ledger \/ (~ledger.exists /\ ledger' = NewDefaultState)]_vars

\* The InstallFromURL call that returned was given consent: the yes flag,
\* or "yes" typed at the prompt on a terminal.
Granted ==
    /\ last'.op = "InstallFromURL"
    /\ last'.err # "load"
    /\ last'.req.Yes \/ (last'.req.tty /\ ToLower(TrimSpace(last'.req.answer)) = "yes")

C15_TrustAppendOnly ==
    [][\A url \in DOMAIN ledger.TrustedDirectSources :
          Approved(ledger, url) => Approved(ledger', url)]_vars

\* A tap was removed, which wrote the ledger, after the URL had been
\* approved; the approval is still there.
C15_Witness ==
    /\ last.op = "TapRemove"
    /\ last.err = ""
    /\ Approved(ledger, DirectURL)

(***************************************************************************)
(* Properties of planning, canonical keys and the adapters' round trip.    *)
(***************************************************************************)
IsCall(kind) == "call" \in DOMAIN rq /\ rq.call = kind

\* The servers the adapter of target t lists in the planned configs.
ExistingOf(t) == ListServers(t, rq.cfg[t])

ConflictsFor(t, n) ==
    {i \in DOMAIN rq.plan.Conflicts :
        rq.plan.Conflicts[i].Target = t /\ rq.plan.Conflicts[i].ServerName = n}

DiffsFor(t, n) ==
    {i \in DOMAIN rq.plan.Diffs :
        rq.plan.Diffs[i].Target = t /\ rq.plan.Diffs[i].ServerName = n}

\* The incoming server n meets, in target t, a server of its name with
\* another canonical key.
NameCollision(t, n) ==
    /\ n \in DOMAIN ExistingOf(t)
    /\ canonicalKey(ExistingOf(t)[n]) # canonicalKey(rq.incoming[n])

\* The existing servers of target t that have the canonical key of the
\* incoming server n.
SameKeyNames(t, n) ==
    {m \in DOMAIN ExistingOf(t) : canonicalKey(ExistingOf(t)[m]) = canonicalKey(rq.incoming[n])}

\* C16: for every target and every incoming server whose name is the name of
\* an existing server with another canonical key, the plan holds exactly one
\* conflict for that (target, name), of kind name_exists, and exactly one
\* diff for it, with op modify, Before the existing spec and After the
\* incoming spec.
C16_NameCollision ==
    IsCall("plan") =>
        \A k \in DOMAIN rq.targets, n \in DOMAIN rq.incoming :
            NameCollision(rq.targets[k], n) =>
                /\ Cardinality(ConflictsFor(rq.targets[k], n)) = 1
                /\ Cardinality(DiffsFor(rq.targets[k], n)) = 1
                /\ \A i \in ConflictsFor(rq.targets[k], n) :
                       rq.plan.Conflicts[i].Kind = ConflictNameExists
                /\ \A i \in DiffsFor(rq.targets[k], n) :
                       /\ rq.plan.Diffs[i].Op = DiffModify
                       /\ rq.plan.Diffs[i].Before = <<ExistingOf(rq.targets[k])[n]>>
                       /\ rq.plan.Diffs[i].After = rq.incoming[n]

\* A plan for two targets in which the same incoming name collides in both.
C16_Witness ==
    /\ IsCall("plan")
    /\ Len(rq.targets) = 2
    /\ \E n \in DOMAIN rq.incoming :
           \A k \in DOMAIN rq.targets :
               /\ NameCollision(rq.targets[k], n)
               /\ ConflictsFor(rq.targets[k], n) # {}

\* C17: for every target and every incoming server whose name is absent
\* from the target, the plan holds exactly one diff for it, with op add; if
\* an existing server has its canonical key, the plan holds one conflict for
\* it, of kind duplicate_spec, whose ExistingName is the name of an existing
\* server with that key; if none has, the plan holds no conflict for it.
C17_DuplicateSpec ==
    IsCall("plan") =>
        \A k \in DOMAIN rq.targets, n \in DOMAIN rq.incoming :
            n \notin DOMAIN ExistingOf(rq.targets[k]) =>
                /\ Cardinality(DiffsFor(rq.targets[k], n)) = 1
                /\ \A i \in DiffsFor(rq.targets[k], n) :
                       /\ rq.plan.Diffs[i].Op = DiffAdd
                       /\ rq.plan.Diffs[i].Before = <<>>
                       /\ rq.plan.Diffs[i].After = rq.incoming[n]
                /\ IF SameKeyNames(rq.targets[k], n) # {}
                   THEN /\ Cardinality(ConflictsFor(rq.targets[k], n)) = 1
                        /\ \A i \in ConflictsFor(rq.targets[k], n) :
                               /\ rq.plan.Conflicts[i].Kind = ConflictDuplicateSpec
                               /\ rq.plan.Conflicts[i].ExistingName \in SameKeyNames(rq.targets[k], n)
                   ELSE ConflictsFor(rq.targets[k], n) = {}

\* A plan in which one incoming server has the key of two existing servers
\* and is reported against one of them, and another incoming server
\* collides with nothing.
C17_Witness ==
    /\ IsCall("plan")
    /\ \E k \in DOMAIN rq.targets, n \in DOMAIN rq.incoming :
           /\ n \notin DOMAIN ExistingOf(rq.targets[k])
           /\ Cardinality(SameKeyNames(rq.targets[k], n)) = 2
           /\ ConflictsFor(rq.targets[k], n) # {}
    /\ \E k \in DOMAIN rq.targets, n \in DOMAIN rq.incoming :
           /\ n \notin DOMAIN ExistingOf(rq.targets[k])
           /\ SameKeyNames(rq.targets[k], n) = {}
           /\ DiffsFor(rq.targets[k], n) # {}

\* C18: when the incoming servers have been written to every target with
\* UpsertServers, the plan of the same incoming servers holds one diff for
\* every (target, name), all with op noop, and no conflict, and NeedsPrompt
\* is false.
C18_ReplanIsNoop ==
    IsCall("replan") =>
        /\ Len(rq.plan.Diffs) = Len(rq.targets) * Cardinality(DOMAIN rq.incoming)
        /\ \A i \in DOMAIN rq.plan.Diffs : rq.plan.Diffs[i].Op = DiffNoop
        /\ Len(rq.plan.Conflicts) = 0
        /\ ~HasConflicts(rq.plan)
        /\ ~NeedsPrompt(rq.plan)

\* A replan over two targets of two servers, one of which requires
\* environment variables, all found unchanged.
C18_Witness ==
    /\ IsCall("replan")
    /\ Len(rq.targets) = 2
    /\ Cardinality(DOMAIN rq.incoming) = 2
    /\ \E n \in DOMAIN rq.incoming : rq.incoming[n].EnvRequired # <<>>
    /\ Len(rq.plan.Diffs) = 4
    /\ \A i \in DOMAIN rq.plan.Diffs : rq.plan.Diffs[i].Op = DiffNoop

\* Every argument preceded by one space.
RECURSIVE SpacedArgs(_)
SpacedArgs(args) ==
    IF Len(args) = 0 THEN "" ELSE " " \o Head(args) \o SpacedArgs(Tail(args))

\* The key the contract states for a spec.
StatedKey(sp) ==
    IF sp.Transport = ServerTransportHTTP
    THEN "http:" \o sp.URL
    ELSE "stdio:" \o sp.Command \o SpacedArgs(sp.Args)

\* The two specs agree on the fields the key is stated to depend on.
SameKeyFields(a, b) ==
    /\ a.Transport = b.Transport
    /\ IF a.Transport = ServerTransportHTTP
       THEN a.URL = b.URL
       ELSE a.Command = b.Command /\ a.Args = b.Args

\* C19: the canonical key of a spec is 'http:' and the url for the http
\* transport, and otherwise 'stdio:' and the command and the arguments
\* joined by single spaces; every spec that agrees with it on the transport
\* and on the url (http) or on the command and arguments (otherwise) has the
\* same key, whatever its required environment variables.  The server name is
\* not a field of the spec, so it cannot enter the key.
C19_CanonicalKey ==
    IsCall("key") =>
        /\ rq.key = StatedKey(rq.spec)
        /\ \A other \in AllSpecs :
               SameKeyFields(rq.spec, other) => canonicalKey(other) = rq.key

\* The key of a stdio spec with arguments and required environment
\* variables.
C19_Witness ==
    /\ IsCall("key")
    /\ rq.spec.Transport = ServerTransportSTDIO
    /\ rq.spec.EnvRequired # <<>>
    /\ rq.key = "stdio:npx -y a"

\* C20: for every adapter and every set of valid stdio or http servers, the
\* servers listed after the write hold every written name, with a spec
\* whose canonical key is that of the spec written.
C20_RoundTrip ==
    IsCall("roundtrip") =>
        \A n \in DOMAIN rq.servers :
            /\ n \in DOMAIN rq.listed
            /\ canonicalKey(rq.listed[n]) = canonicalKey(rq.servers[n])

\* A write of a stdio server with arguments and of an http server through
\* the OpenCode converters, both listed back.
C20_Witness ==
    /\ IsCall("roundtrip")
    /\ rq.client = "opencode"
    /\ \E n \in DOMAIN rq.servers :
           /\ rq.servers[n].Transport = ServerTransportSTDIO
           /\ rq.servers[n].Args # <<>>
           /\ n \in DOMAIN rq.listed
    /\ \E n \in DOMAIN rq.servers :
           /\ rq.servers[n].Transport = ServerTransportHTTP
           /\ n \in DOMAIN rq.listed

(***************************************************************************)
(* Properties of the generic adapter's writes.                             *)
(***************************************************************************)
\* The servers section of a document on disk, empty if it has none.
SectionOf(client, f) ==
    IF serverKeys(client) \in DOMAIN f.raw THEN f.raw[serverKeys(client)] ELSE EmptyMap

\* The members outside the servers section are the same in both documents.
SameSettings(client, f, g) ==
    /\ DOMAIN f.raw \ {serverKeys(client)} = DOMAIN g.raw \ {serverKeys(client)}
    /\ \A k \in DOMAIN f.raw \ {serverKeys(client)} : g.raw[k] = f.raw[k]

\* The server entries with other names than the given ones are the same in
\* both documents.
SameOtherServers(client, f, g, names) ==
    /\ DOMAIN SectionOf(client, f) \ names = DOMAIN SectionOf(client, g) \ names
    /\ \A n \in DOMAIN SectionOf(client, f) \ names :
           SectionOf(client, g)[n] = SectionOf(client, f)[n]

\* C21: after UpsertServers and after RemoveServers of the generic adapter,
\* every member of the document outside the servers section and every
\* server entry that was not named has the value it had before the write,
\* and after RemoveServers exactly the servers not named are listed.
C21_WriteFrame ==
    /\ IsCall("upsert") =>
           /\ SameSettings(rq.client, rq.before, rq.after)
           /\ SameOtherServers(rq.client, rq.before, rq.after, DOMAIN rq.servers)
    /\ IsCall("remove") =>
           /\ SameSettings(rq.client, rq.before, rq.after)
           /\ SameOtherServers(rq.client, rq.before, rq.after, Range(rq.names))
           /\ DOMAIN GenericListServers(rq.client, rq.after)
                  = DOMAIN GenericListServers(rq.client, rq.before) \ Range(rq.names)

(***************************************************************************)
(* Properties of the ledger store.                                         *)
(***************************************************************************)
\* A Load returns without error in this step.
Loads == last'.op = "Load" /\ last'.err = ""

\* C22: a Load that finds no ledger file returns a state with exactly one
\* tap, under the default name, and empty installed and trust maps, and
\* leaves that state in the file; a Load that finds a file leaves the file
\* as it is, and returns the default state again when the file holds it.
C22_LoadCreatesDefault ==
    [][Loads =>
          /\ ~ledger.exists =>
                 /\ DOMAIN last'.out.Taps = {DefaultTapName}
                 /\ last'.out.Installed = EmptyMap
                 /\ last'.out.TrustedDirectSources = EmptyMap
                 /\ ledger'.exists
                 /\ ledger' = last'.out
          /\ ledger.exists =>
                 /\ ledger' = ledger
                 /\ DefaultTapName \in DOMAIN ledger.Taps => last'.out = ledger]_vars

\* A Load has returned the default state that the file holds.
C22_Witness ==
    /\ last.op = "Load"
    /\ last.err = ""
    /\ ledger.exists
    /\ last.out = ledger
    /\ DOMAIN ledger.Taps = {DefaultTapName}
    /\ ledger.Installed = EmptyMap

\* C23: a TapRemove of the default tap name returns an error and leaves the
\* ledger file as it is; every state a Load returns holds a tap under the
\* default name, and so does every ledger file a TapAdd or TapRemove has
\* saved.
C23_DefaultTapStays ==
    [][/\ (last'.op = "TapRemove" /\ last'.req = DefaultTapName)
              => (last'.err # "" /\ ledger' = ledger)
       /\ Loads => DefaultTapName \in DOMAIN last'.out.Taps
       /\ (last'.op \in {"TapAdd", "TapRemove"} /\ last'.err = "")
              => DefaultTapName \in DOMAIN ledger'.Taps]_vars

\* A TapRemove of the default tap has failed on a ledger that holds the
\* default tap and another one.
C23_Witness ==
    /\ last.op = "TapRemove"
    /\ last.req = DefaultTapName
    /\ last.err # ""
    /\ ledger.exists
    /\ {DefaultTapName, "t2"} \subseteq DOMAIN ledger.Taps

\* The taps of a ledger file that this program has written, and the taps a
\* Load of the file returns.
SystemTaps ==
    {LoadedState(ledger).Taps[n] : n \in DOMAIN LoadedState(ledger).Taps}
    \cup {ledger.Taps[n] : n \in DOMAIN ledger.Taps}

\* C24: every tap of the default state, every default tap a Load puts back
\* and every tap TapAdd saves that has the trust mode cosign has at least
\* one trusted identity.
C24_SignatureTapsHaveIdentities ==
    \A tap \in SystemTaps : tap.Trust.Mode = TrustModeCosign => tap.Trust.Identities # {}

(***************************************************************************)
(* Properties of the trust verifier.                                       *)
(***************************************************************************)
\* What signature mode asks for: an identity configured, the signature and
\* certificate files, the tool, and the tool accepting one trusted identity.
SignatureHolds(tap, repo) ==
    /\ tap.Trust.Identities # {}
    /\ repo.signed
    /\ repo.cosign
    /\ tap.Trust.Identities \cap repo.accepts # {}

\* SyncTap and ResolveFromTap have returned a verification error and
\* nothing of the index or the manifest.
RejectedUndecoded ==
    /\ rq.sync = "integrity"
    /\ rq.out = ResolveError("integrity")

HasIssue(issues, pkg, target, kind) ==
    \E i \in 1..Len(issues) :
        issues[i].Package = pkg /\ issues[i].Target = target /\ issues[i].Kind = kind

ExaminedAt(issues, pkg, target) ==
    \E i \in 1..Len(issues) : issues[i].Package = pkg /\ issues[i].Target = target

\* The installed packages Doctor goes over, and what each resolves to.
DoctorInstalled == LoadedState(ledger).Installed

ResolvedFor(p) == resolveManifestForInstalled(LoadedState(ledger), DoctorInstalled[p])

ManifestNames(p) == DOMAIN ResolvedFor(p).Manifest.MCPServers

MissingBefore(p, t) == ManifestNames(p) \ DOMAIN ListServers(t, cfg[t])

\* C26: a Doctor run whose ledger loads returns no error whatever it
\* finds, and what it returns accounts for every installed package and
\* every recorded target: a package whose manifest does not resolve has a
\* manifest issue; a target whose adapter cannot list has an adapter issue;
\* a target whose fix fails has a fix_failed issue next to the
\* missing_server issues; a target that no fix wrote to has a
\* missing_server issue for every absent server; and on a host with no
\* command on the path every target that lists has some issue.
C26_DoctorAccumulates ==
    [][(last'.op = "Doctor" /\ ~last'.req.hit.load) =>
          /\ last'.err = ""
          /\ \A p \in DOMAIN DoctorInstalled :
                IF ResolvedFor(p).err # ""
                THEN HasIssue(last'.out, p, "", "manifest")
                ELSE \A t \in Range(DoctorInstalled[p].Targets) :
                        IF t \in last'.req.hit.list
                        THEN HasIssue(last'.out, p, t, "adapter")
                        ELSE /\ (~last'.req.fix \/ t \in last'.req.hit.upsert)
                                    => \A n \in MissingBefore(p, t) :
                                           \E i \in 1..Len(last'.out) :
                                               last'.out[i] = DoctorIssue(p, t, "missing_server", n)
                             /\ (last'.req.fix /\ t \in last'.req.hit.upsert
                                     /\ MissingBefore(p, t) # {})
                                    => HasIssue(last'.out, p, t, "fix_failed")
                             /\ last'.req.host.path = {} => ExaminedAt(last'.out, p, t)]_vars

\* One run with fix that reports a manifest that does not resolve for one
\* package and, for the other, an adapter that cannot list and a fix that
\* failed.
C26_Witness ==
    /\ last.op = "Doctor"
    /\ last.err = ""
    /\ last.req.fix
    /\ HasIssue(last.out, "pa", "", "manifest")
    /\ HasIssue(last.out, "pd", TargetCodex, "adapter")
    /\ HasIssue(last.out, "pd", TargetClaude, "fix_failed")

\* C27: after a Doctor run with fix, every server name of a resolving
\* package's manifest is in the config of every recorded target whose
\* listing and upsert did not fail; and the Doctor run that follows at once
\* reports no missing_server issue for those packages and targets.
C27_FixRestores ==
    [][/\ (last'.op = "Doctor" /\ last'.err = "" /\ last'.req.fix) =>
             \A p \in DOMAIN DoctorInstalled :
                 ResolvedFor(p).err = "" =>
                     \A t \in Range(DoctorInstalled[p].Targets)
                               \ (last'.req.hit.list \cup last'.req.hit.upsert) :
                         ManifestNames(p) \subseteq DOMAIN ListServers(t, cfg'[t])
       /\ (last'.op = "DoctorAgain" /\ last'.err = "") =>
             \A p \in DOMAIN DoctorInstalled :
                 ResolvedFor(p).err = "" =>
                     \A t \in Range(DoctorInstalled[p].Targets)
                               \ (last'.req.first.hit.list \cup last'.req.first.hit.upsert) :
                         ~HasIssue(last'.out, p, t, "missing_server")]_vars

\* A run that follows a fix run which had reported pd's server missing
\* from claude and could write it back.
C27_Witness ==
    /\ last.op = "DoctorAgain"
    /\ last.err = ""
    /\ HasIssue(last.req.found, "pd", TargetClaude, "missing_server")
    /\ TargetClaude \notin last.req.first.hit.list \cup last.req.first.hit.upsert
    /\ ~HasIssue(last.out, "pd", TargetClaude, "missing_server")
    /\ ~last.req.hit.load

(***************************************************************************)
(* Target expansion.                                                       *)
(***************************************************************************)
\* C28: an install that succeeds for the token all was applied to the
\* names of all adapters of the manager in ascending sorted order, and an
\* install that succeeds for a comma-separated list named known targets
\* only.
C28_TargetExpansion ==
    [][(last'.op = "InstallFromTap" /\ last'.err = "") =>
          IF TrimSpace(last'.req.Target) = TargetAll
          THEN last'.out.targets = SortedSeq(Targets)
          ELSE \A part \in Range(SplitComma(TrimSpace(last'.req.Target))) :
                   ToLower(TrimSpace(part)) \in Targets \cup {""}]_vars

(***************************************************************************)
(* The timestamps of a ledger entry.                                       *)
(***************************************************************************)
InstalledNow == LoadedState(ledger).Installed

InstalledNext == LoadedState(ledger').Installed

\* C29: no step changes the install timestamp of a package that stays in
\* the ledger, or lowers its update timestamp; a successful install or
\* upgrade leaves every entry it wrote with the time of the call as its
\* update timestamp, and a package it entered for the first time with that
\* time as its install timestamp too.
C29_Timestamps ==
    [][/\ \A p \in DOMAIN InstalledNow \cap DOMAIN InstalledNext :
              /\ InstalledNext[p].InstalledAt = InstalledNow[p].InstalledAt
              /\ InstalledNext[p].UpdatedAt >= InstalledNow[p].UpdatedAt
       /\ (last'.op \in {"InstallFromTap", "InstallFromURL", "Upgrade"} /\ last'.err = "") =>
              \A p \in DOMAIN InstalledNext :
                  /\ p \notin DOMAIN InstalledNow =>
                         InstalledNext[p].InstalledAt = now /\ InstalledNext[p].UpdatedAt = now
                  /\ (p \in DOMAIN InstalledNow /\ InstalledNext[p] # InstalledNow[p]) =>
                         InstalledNext[p].UpdatedAt = now
       /\ (last'.op \in {"InstallFromTap", "InstallFromURL"} /\ last'.err = "") =>
              /\ last'.out.installed.Name \in DOMAIN InstalledNext
              /\ InstalledNext[last'.out.installed.Name].UpdatedAt = now]_vars

\* A package installed at time 1 whose later install at time 2 has just
\* succeeded.
C29_Witness ==
    /\ last.op \in {"InstallFromTap", "InstallFromURL"}
    /\ last.err = ""
    /\ now = 2
    /\ last.out.installed.Name \in DOMAIN InstalledNow
    /\ InstalledNow[last.out.installed.Name].InstalledAt = 1
    /\ InstalledNow[last.out.installed.Name].UpdatedAt = 2

(***************************************************************************)
(* The rollback of applyInstall.                                           *)
(***************************************************************************)
\* The place in the target list of the first target whose upsert fails.
FirstFailed(targets, up) ==
    CHOOSE k \in 1..Len(targets) :
        targets[k] \in up /\ \A j \in 1..(k - 1) : targets[j] \notin up

\* C30: when UpsertServers fails on target k, RemoveServers is called on
\* exactly the targets written before k, the last written first, each
\* time with all server names of the manifest; a call that fails changes
\* nothing and leaves no trace in the result; and the error returned is the
\* upsert error of target k.
C30_RollbackOrder ==
    (IsCall("apply") /\ Range(rq.targets) \cap rq.fault.upsert # {}) =>
        /\ rq.run.err = "apply"
        /\ rq.run.failed = rq.targets[FirstFailed(rq.targets, rq.fault.upsert)]
        /\ Len(rq.run.removes) = FirstFailed(rq.targets, rq.fault.upsert) - 1
        /\ \A j \in 1..Len(rq.run.removes) :
               /\ rq.run.removes[j].target
                      = rq.targets[FirstFailed(rq.targets, rq.fault.upsert) - j]
               /\ rq.run.removes[j].names = keys(rq.servers)
        /\ \A t \in ApplyAdapters :
               /\ t \notin Range(rq.run.applied) => rq.run.cfg[t] = rq.cfg[t]
               /\ (t \in Range(rq.run.applied) /\ t \in rq.fault.remove)
                      => rq.run.cfg[t] = AdapterUpsert(t, rq.cfg[t], rq.servers)
               /\ (t \in Range(rq.run.applied) /\ t \notin rq.fault.remove)
                      => DOMAIN AdapterList(t, rq.run.cfg[t]) \cap DOMAIN rq.servers = {}

\* The third of three targets failed, and of the two compensating calls
\* the first failed too.
C30_Witness ==
    /\ IsCall("apply")
    /\ Len(rq.targets) = 3
    /\ rq.run.failed = rq.targets[3]
    /\ Len(rq.run.removes) = 2
    /\ rq.targets[2] \in rq.fault.remove
    /\ rq.run.err = "apply"

(***************************************************************************)
(* AtomicWriteFile.                                                        *)
(***************************************************************************)
\* C31: at every step of a write, after a crash at any step included, the
\* target path holds the complete previous content or the complete new
\* content, the new content only once the rename has happened; and a reader
\* that opened the path at any point has read one of the two in full.
C31_AtomicWrite ==
    IsCall("write") =>
        /\ AtPath(rq.fs) \in {rq.old, rq.data}
        /\ rq.pc \in {"start", "dir", "temp", "written", "chmodded", "closed", "failed"}
               => AtPath(rq.fs) = rq.old
        /\ rq.pc \in {"renamed", "done"} => AtPath(rq.fs) = rq.data
        /\ rq.rd.state = "done" => rq.rd.got \in {rq.old, rq.data}

\* The process crashed with half of the new content in the temp file,
\* after a reader had opened the old file, and that reader has finished.
C31_Witness ==
    /\ IsCall("write")
    /\ rq.pc = "crashed"
    /\ rq.fs.tmp = 2
    /\ Len(rq.fs.inodes[2]) = 1
    /\ Len(rq.data) = 2
    /\ rq.rd.state = "done"
    /\ rq.rd.got = <<"o1", "o2">>

(***************************************************************************)
(* Backups and the legacy key of the Claude settings file.                 *)
(***************************************************************************)
\* C32: every write to a settings file that exists leaves a backup that
\* holds the file as it was before the write, and no write changes or
\* deletes a backup written earlier.
C32_BackupsAdditive ==
    [][(IsClaude /\ rq'.n = rq.n + 1 /\ rq'.op \in {"upsert", "remove"}) =>
          /\ rq.file.exists => \E ts \in 1..MaxSecond : rq'.backups[ts] = <<rq.file>>
          /\ \A ts \in 1..MaxSecond :
                 rq.backups[ts] # NoBackup => rq'.backups[ts] = rq.backups[ts]]_vars

\* C33: after a write by the Claude adapter the document has the canonical
\* key and not the legacy key, and every entry the legacy key held before
\* the write, unless named for removal, is under the canonical key.
C33_LegacyReconciled ==
    (IsClaude /\ rq.op \in {"upsert", "remove"}) =>
        /\ "mcpServers" \in DOMAIN rq.file.raw
        /\ "mcp_servers" \notin DOMAIN rq.file.raw
        /\ "mcp_servers" \in DOMAIN rq.prev.raw =>
               \A n \in DOMAIN rq.prev.raw["mcp_servers"] \ Range(rq.names) :
                   n \in DOMAIN rq.file.raw["mcpServers"]

(***************************************************************************)
(* Cancellation.                                                           *)
(***************************************************************************)
\* C34: once the caller's context is cancelled, no external call of the
\* operation ends on its own or on its own timeout, and the operation
\* returns an error.
C34_CancelAborts ==
    (IsCancel /\ rq.cancelled) =>
        /\ rq.late = {}
        /\ rq.ext = "" => rq.err # ""

(***************************************************************************)
(* runSetupCommands.                                                       *)
(***************************************************************************)
\* The result for an environment variable.
ResultFor(results, env) ==
    {results[j].Status : j \in {j \in 1..Len(results) : results[j].EnvVar = env}}

\* C35: without a terminal there is no result, no command runs and the
\* secret store stays as it is.  With one there is one result per setup
\* command, in ascending order of the names.  A secret is written only for
\* a name that had none, whose command ran and succeeded, and whose result
\* is stored; the value is the extracted one or a non-empty typed one.
\* Every other result leaves the name's secret as it was, and the command
\* of a name that had a secret does not run.
C35_SetupCommands ==
    IsCall("setup") =>
        /\ ~rq.interactive =>
               rq.run.results = <<>> /\ rq.run.ran = {} /\ rq.run.secrets = rq.secrets
        /\ rq.interactive =>
               /\ Len(rq.run.results) = Cardinality(DOMAIN rq.cmds)
               /\ \A j \in 1..Len(rq.run.results) : rq.run.results[j].EnvVar = keys(rq.cmds)[j]
               /\ \A j \in 1..(Len(rq.run.results) - 1) :
                      Rank(rq.run.results[j].EnvVar) < Rank(rq.run.results[j + 1].EnvVar)
        /\ DOMAIN rq.secrets \subseteq DOMAIN rq.run.secrets
        /\ \A env \in DOMAIN rq.run.secrets :
               IF ResultFor(rq.run.results, env) = {"stored"}
               THEN /\ env \notin DOMAIN rq.secrets
                    /\ env \in rq.run.ran
                    /\ executeSetupCommand(rq.cmds[env]).err = ""
                    /\ \/ rq.run.secrets[env] = rq.cmds[env].value
                       \/ /\ rq.run.secrets[env] # ""
                          /\ \E j \in 1..Len(rq.stdin) :
                                 rq.run.secrets[env] = TrimSpace(rq.stdin[j])
                    /\ ~rq.setFails
               ELSE env \in DOMAIN rq.secrets /\ rq.run.secrets[env] = rq.secrets[env]
        /\ \A env \in DOMAIN rq.secrets :
               /\ env \notin rq.run.ran
               /\ (rq.interactive /\ env \in DOMAIN rq.cmds)
                      => ResultFor(rq.run.results, env) = {"existing"}

\* Two commands: KEY's value was typed after edit and stored, then TOKEN's
\* was declined at the second prompt.
C35_Witness ==
    /\ IsCall("setup")
    /\ Len(rq.run.results) = 2
    /\ rq.run.results[1] = SetupResult("KEY", "stored", "")
    /\ rq.run.results[2].Status = "skipped"
    /\ rq.run.secrets = Put(EmptyMap, "KEY", "new")
    /\ rq.run.ran = {"KEY", "TOKEN"}

(***************************************************************************)
(* The ledger against the host configs.                                    *)
(***************************************************************************)
\* C36: whatever Manager operations have run, every server name a ledger
\* entry records is in the config of every target the entry records.
C36_LedgerServersPresent ==
    \A p \in DOMAIN InstalledNow :
        \A t \in Range(InstalledNow[p].Targets) :
            Range(InstalledNow[p].Servers) \subseteq DOMAIN ListServers(t, cfg[t])

\* Some ledger entry of the next state records server n on target t.
OwnedNext(t, n) ==
    \E q \in DOMAIN InstalledNext :
        t \in Range(InstalledNext[q].Targets) /\ n \in Range(InstalledNext[q].Servers)

\* C37: a successful install, upgrade or removal leaves no server behind
\* that the ledger recorded on a target before it and records on that
\* target no more: such a server is gone from the target's config.
C37_NoOrphans ==
    [][(last'.op \in {"InstallFromTap", "InstallFromURL", "Upgrade", "Remove"} /\ last'.err = "") =>
          \A p \in DOMAIN InstalledNow :
              \A t \in Range(InstalledNow[p].Targets) :
                  \A n \in Range(InstalledNow[p].Servers) :
                      n \in DOMAIN ListServers(t, cfg'[t]) => OwnedNext(t, n)]_vars

\* C38: after a successful InstallFromTap of package N, resolved to index
\* version V, the ledger has an entry under key N whose name is N and
\* whose version is V, and the manifest that was applied declares that
\* name and that version.
C38_LedgerAgreesWithIndex ==
    [][(last'.op = "InstallFromTap" /\ last'.err = "") =>
          /\ last'.req.Name \in DOMAIN InstalledNext
          /\ InstalledNext[last'.req.Name].Name = last'.req.Name
          /\ InstalledNext[last'.req.Name].Version = last'.out.sel.version
          /\ last'.out.manifest.Name = last'.req.Name
          /\ last'.out.manifest.Version = last'.out.sel.version]_vars

\* C39: the plan buildInstallPlan returned is the plan every run returns
\* for the same target list, the same existing servers and the same
\* incoming servers, in whichever order the maps yield the existing
\* servers: the same diffs and the same conflicts, ExistingName included.
C39_PlanDeterministic ==
    IsCall("plan") =>
        \A orders \in ListOrders(rq.cfg) :
            buildInstallPlan(rq.targets, rq.cfg, rq.incoming, orders) = rq.plan

\* C40: two specs of one transport have equal canonical keys only if they
\* have the same url (http) or the same command and the same argument list
\* (stdio); and the plan reports an incoming server that meets an existing
\* server of its name as noop only if the two agree on those fields.
C40_KeyTellsSpecsApart ==
    /\ IsCall("keys") =>
           ((rq.a.Transport = rq.b.Transport /\ rq.keyA = rq.keyB) => SameKeyFields(rq.a, rq.b))
    /\ IsCall("collide") =>
           \A i \in DiffsFor(rq.targets[1], "s1") :
               rq.plan.Diffs[i].Op = DiffNoop =>
                   SameKeyFields(ExistingOf(rq.targets[1])["s1"], rq.incoming["s1"])

====
